---- MODULE Spec2Model ----
(***************************************************************************)
(* A model of mediautil.py: one run of the tool over its input files.      *)
(* The state is the parsed command line (ARGS), what the probe tool        *)
(* reports for each input file, the file system, the position of the run   *)
(* in process_file and the locals of process_file, and for an invocation   *)
(* of the engine the child process, its output pipe and the reader thread  *)
(* of execute.  The history variable events records, in order, the steps   *)
(* of the run that touch something outside the process.                    *)
(***************************************************************************)
EXTENDS Integers, Sequences, FiniteSets, TLC

VARIABLES
    ARGS,           \* the namespace returned by parse_args (mediautil.py:511)
    media,          \* per input file, what ffprobe answers for it
    cur,            \* index in files of the file the loop at 518 is at
    pc,             \* position of the run
    exit_at,        \* where the process ended or process_file returned
    input_file,     \* the MediaFile of the current file
    plan,           \* num_actions, action_list and executor.args
    working_dir, working_file, output_file,     \* locals of process_file
    pending,        \* extract_subtitles: the streams still to extract
    sub_file,       \* extract_subtitles: output_file of the running extraction
    destinations,   \* extract_subtitles: the output_file of each extraction started
    returncode,     \* the last value returned by execute
    fs,             \* the files on disk: path -> content
    dirs,           \* the directories created under the input directory
    fs0, dirs0,     \* the disk when the run started
    fs_start, dirs_start,   \* the disk when process_file was entered
    fs_exec,        \* the files on disk when execute last returned
    process,        \* execute: the child process of the last Popen
    pipe,           \* execute: the chunks of child output lying in the pipe
    output_reader,  \* execute: the thread running __read_output
    execute_at,     \* execute: where the calling thread is blocked
    events,         \* history of the run's external steps
    run,            \* the number of the run: 1, or more when the command is run again
    \* subtitle-arranger.py
    DRY_RUN,        \* the global set from --dry-run
    tree_files,     \* the files below BASE_DIR
    tree_dirs,      \* the directories below BASE_DIR, BASE_DIR included
    tree_files0,    \* the files below BASE_DIR when the run started
    tree_dirs0,     \* the directories below BASE_DIR when the run started
    video_files,    \* main: the videos found, each with its matched subtitles
    arranger_pc,    \* where the run is
    video_at,       \* rearrange_subtitle_files: the video being handled (from 1)
    subtitle_at,    \* rearrange_subtitle_files: the subtitle being handled (from 1)
    printed,        \* the lines printed by rearrange_subtitle_files and move_file
    \* sftpsummary.py
    sftp_ARGS,      \* the parsed command line
    logfile,        \* the lines of the log read so far
    heap,           \* the Session objects created so far, by reference (from 1)
    SESSIONS_DICT,  \* session id -> reference
    SESSIONS_LIST,  \* the references in the order of creation
    sftp_pc,        \* where the run is
    exitCode        \* the exit code, once the run has ended

vars == <<ARGS, media, cur, pc, exit_at, input_file, plan, working_dir,
          working_file, output_file, pending, sub_file, destinations, returncode,
          fs, dirs,
          fs0, dirs0, fs_start, dirs_start, fs_exec, process, pipe,
          output_reader, execute_at, events, run,
          DRY_RUN, tree_files, tree_dirs, tree_files0, tree_dirs0, video_files,
          arranger_pc, video_at, subtitle_at, printed,
          sftp_ARGS, logfile, heap, SESSIONS_DICT, SESSIONS_LIST, sftp_pc, exitCode>>

-----------------------------------------------------------------------------
(* Bounds of the model                                                     *)

MaxStreams == 2         \* streams per probed file
MaxFiles == 2           \* input files per run
MaxDeleteList == 2      \* indices in one --delete-stream argument
MaxPreexisting == 1     \* files already on disk besides the inputs
MaxOutput == 3          \* chunks of output one child process writes
PipeCapacity == 1       \* chunks the pipe holds before a write blocks
MaxRuns == 2            \* runs of the same command line, one after the other

-----------------------------------------------------------------------------
(* Sequences                                                               *)

Range(s) == {s[i] : i \in 1..Len(s)}

SeqsUpTo(S, n) == UNION {[1..k -> S] : k \in 0..n}

\* s[i] as Python evaluates it: a negative i counts from the end, and an i
\* outside -len..len-1 raises IndexError (reported here as ok = FALSE)
PyIndex(s, i) ==
    IF i >= 0 /\ i < Len(s) THEN [ok |-> TRUE, pos |-> i + 1]
    ELSE IF i < 0 /\ i >= 0 - Len(s) THEN [ok |-> TRUE, pos |-> Len(s) + i + 1]
    ELSE [ok |-> FALSE, pos |-> 0]

-----------------------------------------------------------------------------
(* Streams and media files                                                 *)

\* Stream.__init__ and Stream.__parse_tags: language and title are the tags
\* when the descriptor has tags and the tag is a non-empty string, else the
\* class defaults "unknown" and ""
Stream(raw) ==
    [type       |-> raw.codec_type,
     codec_name |-> raw.codec_name,
     index      |-> raw.index,
     language   |-> IF raw.has_tags /\ raw.language # "" THEN raw.language
                    ELSE "unknown",
     title      |-> IF raw.has_tags THEN raw.title ELSE "",
     disposition |-> raw.disposition]

\* the words of interest that title.upper() contains
UpperWords(title) ==
    CASE title = "English SDH" -> {"SDH"}
      [] title = "Forced" -> {"FORCED"}
      [] title = "sdh forced" -> {"SDH", "FORCED"}
      [] OTHER -> {}

\* Stream.__has_disposition, lines 110-114
has_disposition(stream, disposition) == disposition \in stream.disposition

is_forced(stream) ==
    has_disposition(stream, "forced") \/ "FORCED" \in UpperWords(stream.title)
is_hearing_impaired(stream) ==
    has_disposition(stream, "hearing_impaired") \/ "SDH" \in UpperWords(stream.title)

is_video(stream) == stream.type = "video"
is_audio(stream) == stream.type = "audio"
is_subtitle(stream) == stream.type = "subtitle"
is_image(stream) == stream.codec_name \in {"mjpeg", "png"}
is_image_based_subtitle(stream) ==
    /\ is_subtitle(stream)
    /\ stream.codec_name \in {"dvd_subtitle", "dvb_subtitle", "pgs_subtitle",
                              "hdmv_pgs_subtitle"}

\* a path is directory + "/" + stem [+ "." + tag...] [+ "." + n] + "." + ext;
\* the directory is the list of directory names below the input directory
PathOf(dir, stem, tag, n, ext) ==
    [dir |-> dir, stem |-> stem, tag |-> tag, n |-> n, ext |-> ext]

\* MediaFile.__init__: the container is the extension of the path
MediaFile(path, streams) ==
    [path |-> path, container |-> path.ext, streams |-> streams]

get_video_streams(mf) == SelectSeq(mf.streams, is_video)
get_audio_streams(mf) == SelectSeq(mf.streams, is_audio)
get_subtitle_streams(mf) == SelectSeq(mf.streams, is_subtitle)

NoMediaFile == [path |-> PathOf(<<>>, "", <<>>, 0, ""), container |-> "",
                streams |-> <<>>]

\* parse_mediafile, lines 256-259: every stream sits at its own index
IndexesValid(streams) == \A i \in 1..Len(streams) : streams[i].index = i - 1

-----------------------------------------------------------------------------
(* The command line                                                        *)

\* parse_args, lines 285-299, from the values argparse stored
parse_args(raw) ==
    [files    |-> raw.files,
     list     |-> raw.list,
     set_stream_language |-> raw.set_stream_language,
     output_container |-> raw.output_container,
     \* 293-297: a text with a comma becomes a list of ints, any other text
     \* stays a string in a one-element list
     delete_stream |->
        [given |-> raw.delete_stream.given,
         list  |-> [i \in 1..Len(raw.delete_stream.text) |->
                      [int |-> Len(raw.delete_stream.text) > 1,
                       v   |-> raw.delete_stream.text[i]]]],
     delete_audio_streams_except |-> raw.delete_audio_streams_except,
     delete_data_streams  |-> raw.delete_data_streams,
     delete_image_streams |-> raw.delete_image_streams,
     delete_subs  |-> raw.delete_subs \/ raw.extract_and_delete_subs,
     extract_subs |-> raw.extract_subs \/ raw.extract_and_delete_subs,
     create_dir |-> raw.create_dir,
     dry_run    |-> raw.dry_run,
     confirm    |-> IF raw.dry_run THEN FALSE ELSE ~raw.no_confirm,
     cleanup    |-> ~raw.no_cleanup]

-----------------------------------------------------------------------------
(* The action planner: process_file, lines 349-435.  A plan holds          *)
(* num_actions, action_list and the directives added to executor.args;     *)
(* status tells whether planning is still running ("ok"), ended in fatal() *)
(* ("fatal") or in an uncaught exception ("crashed"), and at names the     *)
(* edit that ended it.  Every directive and plan line carries the edit     *)
(* that added it (by).                                                     *)

Directive(op, idx, lang, by) == [op |-> op, idx |-> idx, lang |-> lang, by |-> by]
Line(text, idx, by) == [text |-> text, idx |-> idx, by |-> by]

Stop(p, status, at) == [p EXCEPT !.status = status, !.at = at]

\* 349-354
OutputContainer(args, mf) ==
    IF args.output_container # "" THEN args.output_container ELSE mf.container

ContainerChange(args, mf) == mf.container # OutputContainer(args, mf)

\* 356-365
PlanStart(args, mf) ==
    LET change == ContainerChange(args, mf) IN
    [status      |-> "ok",
     at          |-> "",
     num_actions |-> IF change THEN 1 ELSE 0,
     action_list |-> IF change THEN <<Line("change_container", 0, "output_container")>>
                     ELSE <<>>,
     args        |-> <<Directive("-c copy", 0, "", "base"),
                       Directive("-map 0", 0, "", "base")>>]

\* 367-373
PlanExtractSubs(p, args, mf) ==
    IF p.status # "ok" \/ ~args.extract_subs THEN p
    ELSE
        LET image_based_subs == SelectSeq(get_subtitle_streams(mf), is_image_based_subtitle)
            warning == IF image_based_subs = <<>> THEN <<>>
                       ELSE <<Line("warning_image_based", 0, "extract_subs")>> \o
                            [i \in 1..Len(image_based_subs) |->
                                Line("item", image_based_subs[i].index, "extract_subs")]
        IN [p EXCEPT !.action_list =
                @ \o <<Line("extract_all", 0, "extract_subs")>> \o warning]

\* the retag planned without comparing the languages (381-382 left out).
\* C9 fails with it.
PlanSetStreamLanguageUncompared(p, args, mf) ==
    IF p.status # "ok" \/ ~args.set_stream_language.given THEN p
    ELSE
        LET stream_index == args.set_stream_language.stream
            new_language == args.set_stream_language.language
            at == PyIndex(mf.streams, stream_index)
        IN  IF stream_index >= Len(mf.streams) \/ ~at.ok
            THEN Stop(p, "crashed", "set_stream_language")
            ELSE [p EXCEPT
                    !.num_actions = @ + 1,
                    !.action_list = Append(@, Line("update_language", mf.streams[at.pos].index,
                                                   "set_stream_language")),
                    !.args = Append(@, Directive("-metadata:s", stream_index, new_language,
                                                 "set_stream_language"))]

\* 375-387
PlanSetStreamLanguage(p, args, mf) ==
    IF p.status # "ok" \/ ~args.set_stream_language.given THEN p
    ELSE
        LET stream_index == args.set_stream_language.stream
            new_language == args.set_stream_language.language
            at == PyIndex(mf.streams, stream_index)
        IN  IF stream_index >= Len(mf.streams)
            \* 379 reads ARGS.stream_index, which parse_args never defines:
            \* AttributeError before fatal is called
            THEN Stop(p, "crashed", "set_stream_language")
            ELSE IF ~at.ok
            THEN Stop(p, "crashed", "set_stream_language")      \* IndexError at 380
            ELSE IF mf.streams[at.pos].language = new_language
            THEN Stop(p, "fatal", "set_stream_language")
            ELSE [p EXCEPT
                    !.num_actions = @ + 1,
                    !.action_list = Append(@, Line("update_language", mf.streams[at.pos].index,
                                                   "set_stream_language")),
                    !.args = Append(@, Directive("-metadata:s", stream_index, new_language,
                                                 "set_stream_language"))]

RECURSIVE PlanDeleteLoop(_, _, _)
\* 390-396, the loop from the i-th requested index on
PlanDeleteLoop(p, list, mf) ==
    IF p.status # "ok" \/ list = <<>> THEN p
    ELSE
        LET index == Head(list)
            at == PyIndex(mf.streams, index.v)
        IN  IF ~index.int
            \* 391 compares a str with an int: TypeError
            THEN Stop(p, "crashed", "delete_stream")
            ELSE IF index.v >= Len(mf.streams)
            THEN Stop(p, "fatal", "delete_stream")
            ELSE IF ~at.ok
            THEN Stop([p EXCEPT !.num_actions = @ + 1], "crashed", "delete_stream")
            ELSE PlanDeleteLoop(
                    [p EXCEPT
                        !.num_actions = @ + 1,
                        !.args = Append(@, Directive("-map -0:", mf.streams[at.pos].index, "",
                                                     "delete_stream")),
                        !.action_list = Append(@, Line("delete_stream",
                                                       mf.streams[at.pos].index,
                                                       "delete_stream"))],
                    Tail(list), mf)

\* 389-396
PlanDeleteStream(p, args, mf) ==
    IF p.status # "ok" \/ ~args.delete_stream.given THEN p
    ELSE PlanDeleteLoop(p, args.delete_stream.list, mf)

\* the plan lines and the exclusions for a list of streams, in list order
ItemLines(streams, by) ==
    [i \in 1..Len(streams) |-> Line("item", streams[i].index, by)]
Exclusions(streams, by) ==
    [i \in 1..Len(streams) |-> Directive("-map -0:", streams[i].index, "", by)]

\* 398-408
PlanDeleteAudioStreamsExcept(p, args, mf) ==
    IF p.status # "ok" \/ ~args.delete_audio_streams_except.given THEN p
    ELSE
        LET except == args.delete_audio_streams_except.n
            Deleted(stream) == stream.index # except
            audio_streams_to_delete == SelectSeq(get_audio_streams(mf), Deleted)
        IN  IF except > Len(get_audio_streams(mf))
            THEN Stop(p, "fatal", "delete_audio_streams_except")
            ELSE IF audio_streams_to_delete = <<>> THEN p
            ELSE [p EXCEPT
                    !.num_actions = @ + 1,
                    !.action_list = @ \o <<Line("delete_audio", 0, "delete_audio_streams_except")>>
                                      \o ItemLines(audio_streams_to_delete,
                                                   "delete_audio_streams_except"),
                    !.args = @ \o Exclusions(audio_streams_to_delete,
                                             "delete_audio_streams_except")]

\* 410-417
PlanDeleteImageStreams(p, args, mf) ==
    IF p.status # "ok" \/ ~args.delete_image_streams THEN p
    ELSE
        LET image_streams_to_delete == SelectSeq(get_video_streams(mf), is_image)
        IN  IF image_streams_to_delete = <<>> THEN p
            ELSE [p EXCEPT
                    !.num_actions = @ + 1,
                    !.action_list = @ \o <<Line("delete_images", 0, "delete_image_streams")>>
                                      \o ItemLines(image_streams_to_delete,
                                                   "delete_image_streams"),
                    !.args = @ \o Exclusions(image_streams_to_delete, "delete_image_streams")]

\* 419-423
PlanDeleteDataStreams(p, args, mf) ==
    IF p.status # "ok" \/ ~args.delete_data_streams THEN p
    ELSE [p EXCEPT
            !.num_actions = @ + 1,
            !.action_list = Append(@, Line("delete_data", 0, "delete_data_streams")),
            !.args = @ \o <<Directive("-dn", 0, "", "delete_data_streams"),
                            Directive("-map_chapters -1", 0, "", "delete_data_streams")>>]

\* delete-subs planned without looking for subtitle streams (426 and
\* 430-431 left out).  C13 fails with it.
PlanDeleteSubsUnlooked(p, args, mf) ==
    IF p.status # "ok" \/ ~args.delete_subs THEN p
    ELSE [p EXCEPT
            !.num_actions = @ + 1,
            !.action_list = Append(@, Line("delete_subs", 0, "delete_subs")),
            !.args = Append(@, Directive("-sn", 0, "", "delete_subs"))]

\* 425-431
PlanDeleteSubs(p, args, mf) ==
    IF p.status # "ok" \/ ~args.delete_subs THEN p
    ELSE IF Len(get_subtitle_streams(mf)) > 0
    THEN [p EXCEPT
            !.num_actions = @ + 1,
            !.action_list = Append(@, Line("delete_subs", 0, "delete_subs")),
            !.args = Append(@, Directive("-sn", 0, "", "delete_subs"))]
    ELSE [p EXCEPT
            !.action_list = Append(@, Line("no_subs_to_delete", 0, "delete_subs"))]

\* 349-431 in the order of the code
PlanOf(args, mf) ==
    PlanDeleteSubs(
     PlanDeleteDataStreams(
      PlanDeleteImageStreams(
       PlanDeleteAudioStreamsExcept(
        PlanDeleteStream(
         PlanSetStreamLanguage(
          PlanExtractSubs(PlanStart(args, mf), args, mf),
          args, mf), args, mf), args, mf), args, mf), args, mf), args, mf)

NoPlan == [status |-> "", at |-> "", num_actions |-> 0, action_list |-> <<>>,
           args |-> <<>>]

-----------------------------------------------------------------------------
(* Paths and the disk                                                      *)

Exists(disk, path) == path \in DOMAIN disk

Content(kind, stem) == [kind |-> kind, stem |-> stem]

\* the disk after path was written with content c
Written(disk, path, c) ==
    [q \in DOMAIN disk \cup {path} |-> IF q = path THEN c ELSE disk[q]]

\* the disk after path was removed
Removed(disk, path) == [q \in DOMAIN disk \ {path} |-> disk[q]]

\* a copy in place of the rename: the source stays.  C2 fails with it.
CopiedOnly(disk, source, destination) == Written(disk, destination, disk[source])

\* os.replace: destination takes the content of source, source is gone
Replaced(disk, source, destination) ==
    Removed(Written(disk, destination, disk[source]), source)

\* 451-455
WorkingDir(args, mf) ==
    IF args.create_dir THEN Append(mf.path.dir, mf.path.stem) ELSE mf.path.dir

\* 457
WorkingFile(args, mf) ==
    PathOf(WorkingDir(args, mf), mf.path.stem, <<"new">>, 0, OutputContainer(args, mf))

\* 462
OutputFile(args, mf) ==
    PathOf(WorkingDir(args, mf), mf.path.stem, <<>>, 0, OutputContainer(args, mf))

\* 326-330
LanguageStr(subtitle) ==
    <<subtitle.language>>
        \o (IF is_hearing_impaired(subtitle) THEN <<"sdh">> ELSE <<>>)
        \o (IF is_forced(subtitle) THEN <<"forced">> ELSE <<>>)

\* the loop run at most once: the name with the next suffix is returned
\* without looking whether it exists (335 as an if).  C16 fails with it.
FirstFreeOnce(disk, destination_dir, name, language_str, i) ==
    IF Exists(disk, PathOf(destination_dir, name, language_str, i, "srt"))
    THEN PathOf(destination_dir, name, language_str, i + 1, "srt")
    ELSE PathOf(destination_dir, name, language_str, i, "srt")

RECURSIVE FirstFree(_, _, _, _, _)
\* 334-338: the loop, entered with counter i and output_file naming suffix i
FirstFree(disk, destination_dir, name, language_str, i) ==
    LET candidate == PathOf(destination_dir, name, language_str, i, "srt") IN
    IF Exists(disk, candidate)
    THEN FirstFree(disk, destination_dir, name, language_str, i + 1)
    ELSE candidate

\* the name without a look at the disk (334-337 left out).  C24 fails with
\* it.
resolve_unsuffixed(disk, subtitle, name, destination_dir) ==
    PathOf(destination_dir, name, LanguageStr(subtitle), 0, "srt")

\* 325-338
resolve_new_subtitle_file_path(disk, subtitle, name, destination_dir) ==
    FirstFree(disk, destination_dir, name, LanguageStr(subtitle), 0)

NoPath == PathOf(<<>>, "", <<>>, 0, "")

-----------------------------------------------------------------------------
(* The external tools                                                      *)

\* what the engine can leave behind and return for the main invocation
\* (execute, 76-81): the finished output with code 0, or a failure with or
\* without a partly written output.  The engine run with -nostdin does not
\* overwrite: an existing output path makes it fail and stay as it is.
MainOutcomes(disk, path, stem) ==
    IF Exists(disk, path)
    THEN {[rc |-> 1, disk |-> disk]}
    ELSE {[rc |-> 0, disk |-> Written(disk, path, Content("out", stem))],
          [rc |-> 1, disk |-> Written(disk, path, Content("partial", stem))],
          [rc |-> 1, disk |-> disk]}

\* the same for one subtitle extraction (extract_subtitles, 317-321)
ExtractOutcomes(disk, path, stem) ==
    IF Exists(disk, path)
    THEN {[rc |-> 1, disk |-> disk]}
    ELSE {[rc |-> 0, disk |-> Written(disk, path, Content("srt", stem))],
          [rc |-> 1, disk |-> Written(disk, path, Content("partial", stem))],
          [rc |-> 1, disk |-> disk]}

Event(op, file, arg) == [op |-> op, file |-> file, arg |-> arg]

\* execute before its first Popen
NoProcess == [state |-> "none", main |-> FALSE, output |-> 0, returncode |-> 0]

-----------------------------------------------------------------------------
(* The inputs of a run: command lines, probe answers and disks             *)

Containers == {"mkv", "mp4"}
Languages == {"eng", "unknown"}
Indexes == (0 - 1)..MaxStreams

StemNames == <<"a", "b", "c", "d">>

\* the i-th input file of a run: <input directory>/<stem>.mkv
InputPath(i) == PathOf(<<>>, StemNames[i], <<>>, 0, "mkv")

FileLists == {[i \in 1..k |-> InputPath(i)] : k \in 1..MaxFiles}

\* the stream descriptors the probe can report at index i
Shapes(i) ==
    {[codec_type |-> "video", codec_name |-> "h264", index |-> i,
      has_tags |-> TRUE, language |-> "", title |-> "", disposition |-> {"default"}],
     [codec_type |-> "video", codec_name |-> "mjpeg", index |-> i,
      has_tags |-> FALSE, language |-> "", title |-> "", disposition |-> {}],
     [codec_type |-> "audio", codec_name |-> "aac", index |-> i,
      has_tags |-> TRUE, language |-> "eng", title |-> "", disposition |-> {}],
     [codec_type |-> "subtitle", codec_name |-> "subrip", index |-> i,
      has_tags |-> TRUE, language |-> "eng", title |-> "English SDH",
      disposition |-> {"forced"}],
     [codec_type |-> "subtitle", codec_name |-> "hdmv_pgs_subtitle", index |-> i,
      has_tags |-> FALSE, language |-> "", title |-> "", disposition |-> {}]}

\* descriptor lists whose indexes are the positions
Layouts ==
    UNION {{l \in [1..k -> UNION {Shapes(i) : i \in 0..(k - 1)}] :
                \A i \in 1..k : l[i].index = i - 1} : k \in 0..MaxStreams}

VideoAt(i) == CHOOSE r \in Shapes(i) : r.codec_name = "h264"
AudioAt(i) == CHOOSE r \in Shapes(i) : r.codec_type = "audio"
TextSubAt(i) == CHOOSE r \in Shapes(i) : r.codec_name = "subrip"

\* descriptor lists with an index that is not the position
BadLayouts == {<<VideoAt(1)>>, <<VideoAt(0), AudioAt(0)>>}

ProbeOk(streams) == [returncode |-> 0, streams |-> streams]
ProbeFailed == [returncode |-> 1, streams |-> <<>>]

AllProbes == {ProbeOk(l) : l \in Layouts \cup BadLayouts} \cup {ProbeFailed}
FewProbes == {ProbeOk(<<VideoAt(0), TextSubAt(1)>>), ProbeOk(<<AudioAt(0)>>)}

EditKinds ==
    {"list", "output_container", "set_stream_language", "delete_stream",
     "delete_audio_streams_except", "delete_data_streams", "delete_image_streams",
     "delete_subs", "extract_subs", "extract_and_delete_subs"}

Flag(K, kind) == IF kind \in K THEN {TRUE} ELSE {FALSE}

\* the edit requests of a command line that gives exactly the options in K
EditsOf(K) ==
    [list : Flag(K, "list"),
     output_container :
        IF "output_container" \in K THEN Containers ELSE {""},
     set_stream_language :
        IF "set_stream_language" \in K
        THEN [given : {TRUE}, stream : Indexes, language : Languages]
        ELSE {[given |-> FALSE, stream |-> 0, language |-> ""]},
     delete_stream :
        IF "delete_stream" \in K
        THEN [given : {TRUE}, text : SeqsUpTo(Indexes, MaxDeleteList) \ {<<>>}]
        ELSE {[given |-> FALSE, text |-> <<>>]},
     delete_audio_streams_except :
        IF "delete_audio_streams_except" \in K
        THEN [given : {TRUE}, n : Indexes]
        ELSE {[given |-> FALSE, n |-> 0]},
     delete_data_streams : Flag(K, "delete_data_streams"),
     delete_image_streams : Flag(K, "delete_image_streams"),
     delete_subs : Flag(K, "delete_subs"),
     extract_subs : Flag(K, "extract_subs"),
     extract_and_delete_subs : Flag(K, "extract_and_delete_subs")]

SingleEdits == UNION {EditsOf({kind}) : kind \in EditKinds}

\* a request addressing streams by index together with a second request
PairedEdits ==
    {e \in EditsOf({"set_stream_language", "delete_stream"}) :
        Len(e.delete_stream.text) = 2}
    \cup EditsOf({"set_stream_language", "delete_data_streams"})
    \cup {e \in EditsOf({"delete_stream", "delete_data_streams"}) :
            Len(e.delete_stream.text) = 2}
    \cup EditsOf({"delete_audio_streams_except", "delete_data_streams"})

PlanEdits == SingleEdits \cup PairedEdits

\* a few requests, for the runs that vary everything else
FewEdits ==
    UNION {EditsOf(K) : K \in {{"list"}, {"delete_subs"}, {"extract_subs"},
                               {"extract_and_delete_subs"}, {"delete_data_streams"},
                               {"delete_image_streams"}} }
    \cup {e \in EditsOf({"output_container", "delete_data_streams"}) :
            e.output_container = "mp4"}
    \cup {e \in EditsOf({"set_stream_language"}) :
            e.set_stream_language.stream = 0 /\ e.set_stream_language.language = "eng"}

Options == [create_dir : BOOLEAN, dry_run : BOOLEAN, no_confirm : BOOLEAN,
            no_cleanup : BOOLEAN]

DefaultOptions == [create_dir |-> FALSE, dry_run |-> FALSE, no_confirm |-> FALSE,
                   no_cleanup |-> FALSE]

\* the values argparse stores for a command line
RawArgs(file_list, e, o) ==
    [files |-> file_list,
     list |-> e.list,
     set_stream_language |-> e.set_stream_language,
     output_container |-> e.output_container,
     delete_stream |-> e.delete_stream,
     delete_audio_streams_except |-> e.delete_audio_streams_except,
     delete_data_streams |-> e.delete_data_streams,
     delete_image_streams |-> e.delete_image_streams,
     delete_subs |-> e.delete_subs,
     extract_subs |-> e.extract_subs,
     extract_and_delete_subs |-> e.extract_and_delete_subs,
     create_dir |-> o.create_dir,
     dry_run |-> o.dry_run,
     no_confirm |-> o.no_confirm,
     no_cleanup |-> o.no_cleanup]

\* the files that may lie on disk besides the inputs: working files, output
\* files and subtitle files of the inputs, in the input directory or in the
\* directory named after the input
Candidates(file_list) ==
    UNION {
        ({PathOf(d, file_list[i].stem, t, 0, e) :
            d \in {<<>>, <<file_list[i].stem>>}, t \in {<<>>, <<"new">>}, e \in Containers}
         \cup
         {PathOf(d, file_list[i].stem, <<"eng", "sdh", "forced">>, 0, "srt") :
            d \in {<<>>, <<file_list[i].stem>>}})
        : i \in 1..Len(file_list)} \ Range(file_list)

\* a disk a run can start on: every input exists (is_valid_file, 24-27), the
\* files of pre exist besides, and a directory exists when a file lies in it
Disk(file_list, pre, more) ==
    [files |-> [q \in Range(file_list) \cup pre |->
                    IF q \in pre THEN Content("other", "")
                    ELSE Content("orig", q.stem)],
     dirs  |-> {<<>>} \cup {q.dir : q \in pre} \cup more]

Disks(file_list) ==
    {Disk(file_list, pre, more)
        : pre \in {P \in SUBSET Candidates(file_list) : Cardinality(P) <= MaxPreexisting},
          more \in SUBSET {<<file_list[1].stem>>}}

\* the state after parse_args (511) on the given command line and disk
InitWith(raw, probes, disk) ==
    /\ ARGS = parse_args(raw)
    /\ media = probes
    /\ fs = disk.files
    /\ dirs = disk.dirs
    /\ fs0 = disk.files
    /\ dirs0 = disk.dirs
    /\ fs_start = disk.files
    /\ dirs_start = disk.dirs
    /\ fs_exec = disk.files
    /\ cur = 1
    /\ pc = "process_file"
    /\ exit_at = ""
    /\ input_file = NoMediaFile
    /\ plan = NoPlan
    /\ working_dir = <<>>
    /\ working_file = NoPath
    /\ output_file = NoPath
    /\ pending = <<>>
    /\ sub_file = NoPath
    /\ destinations = <<>>
    /\ returncode = 0
    /\ process = NoProcess
    /\ pipe = 0
    /\ output_reader = "none"
    /\ execute_at = ""
    /\ events = <<>>
    /\ run = 1

\* runs that vary the edit requests and the stream layout
InitPlan ==
    \E e \in PlanEdits, probe \in AllProbes :
        InitWith(RawArgs(<<InputPath(1)>>, e, DefaultOptions), <<probe>>,
                 Disk(<<InputPath(1)>>, {}, {}))

\* runs that vary the output options and the disk
InitCommit ==
    \E e \in FewEdits, o \in Options, probe \in FewProbes,
       disk \in Disks(<<InputPath(1)>>) :
        InitWith(RawArgs(<<InputPath(1)>>, e, o), <<probe>>, disk)

\* runs over several files
InitFiles ==
    \E file_list \in {l \in FileLists : Len(l) > 1},
       e \in EditsOf({"extract_and_delete_subs"}) \cup EditsOf({"delete_data_streams"}),
       o \in {o \in Options : ~(o.dry_run /\ o.create_dir)
                                /\ ~(o.no_cleanup /\ o.create_dir)} :
        \E pre \in {{}} \cup {{WorkingFile(parse_args(RawArgs(file_list, e, o)),
                                           MediaFile(file_list[i], <<>>))}
                                : i \in 2..Len(file_list)} :
            InitWith(RawArgs(file_list, e, o),
                     [i \in 1..Len(file_list) |->
                        IF i = 2 THEN ProbeOk(<<AudioAt(0)>>)
                        ELSE ProbeOk(<<VideoAt(0), TextSubAt(1)>>)],
                     Disk(file_list, pre, {}))

\* runs that extract two text subtitle streams of the same language, on the
\* disks of InitCommit
InitExtract ==
    \E e \in EditsOf({"extract_subs"}),
       o \in {o \in Options : o.no_confirm /\ ~o.no_cleanup},
       disk \in Disks(<<InputPath(1)>>) :
        InitWith(RawArgs(<<InputPath(1)>>, e, o),
                 <<ProbeOk(<<TextSubAt(0), TextSubAt(1)>>)>>, disk)

arrangerVars == <<DRY_RUN, tree_files, tree_dirs, tree_files0, tree_dirs0, video_files,
                  arranger_pc, video_at, subtitle_at, printed>>
sftpVars == <<sftp_ARGS, logfile, heap, SESSIONS_DICT, SESSIONS_LIST, sftp_pc, exitCode>>
\* what a step of mediautil.py never touches
others == <<arrangerVars, sftpVars>>

\* subtitle-arranger.py not started
ArrangerIdle ==
    /\ DRY_RUN = FALSE
    /\ tree_files = {}
    /\ tree_dirs = {}
    /\ tree_files0 = {}
    /\ tree_dirs0 = {}
    /\ video_files = <<>>
    /\ arranger_pc = "idle"
    /\ video_at = 0
    /\ subtitle_at = 0
    /\ printed = <<>>

\* sftpsummary.py not started
SftpIdle ==
    /\ sftp_ARGS = [date |-> "", quiet |-> FALSE, mail |-> ""]
    /\ logfile = <<>>
    /\ heap = <<>>
    /\ SESSIONS_DICT = <<>>
    /\ SESSIONS_LIST = <<>>
    /\ sftp_pc = "idle"
    /\ exitCode = 0

\* the runs of mediautil.py
Init == (InitPlan \/ InitCommit \/ InitFiles \/ InitExtract) /\ ArrangerIdle /\ SftpIdle

inputVars == <<ARGS, media, fs0, dirs0, run>>
pathVars == <<working_dir, working_file, output_file>>
startVars == <<fs_start, dirs_start>>
extractVars == <<pending, sub_file, destinations>>
executeVars == <<process, pipe, output_reader, execute_at>>

\* execute, 76-78: the child is started with its output going to a pipe,
\* the reader thread is started, and the caller goes to wait at 79
Popen ==
    /\ \E n \in 0..MaxOutput :
        process' = [state |-> "running", main |-> pc = "main", output |-> n,
                    returncode |-> 0]
    /\ pipe' = 0
    /\ output_reader' = "started"
    /\ execute_at' = "wait"

\* fatal() that prints the error and returns (35 left out): the loop at
\* 518 goes on with the next file.  C25 fails with it.
FatalReturning(at) == pc' = "returned" /\ exit_at' = at

\* fatal(), lines 33-35: the process exits with code 1
Fatal(at) == pc' = "fatal" /\ exit_at' = at

\* process_file returns to the loop at 518
Return(at) == pc' = "returned" /\ exit_at' = at

Log(op, arg) == events' = Append(events, Event(op, cur, arg))

\* parse_mediafile without the validation of the indexes (256-259 left
\* out).  C12 fails with it.
ParseMediafileUnvalidated ==
    /\ pc = "process_file"
    /\ LET probe == media[cur]
           streams == [i \in 1..Len(probe.streams) |-> Stream(probe.streams[i])]
       IN  IF probe.returncode # 0
           THEN Fatal("parse_mediafile") /\ UNCHANGED input_file
           ELSE /\ input_file' = MediaFile(ARGS.files[cur], streams)
                /\ pc' = "parsed"
                /\ UNCHANGED exit_at
    /\ UNCHANGED <<others, inputVars, cur, plan, pathVars, extractVars, returncode, fs, dirs,
                   startVars, fs_exec, executeVars, events>>

\* parse_mediafile, 237-261, called at 343
ParseMediafile ==
    /\ pc = "process_file"
    /\ LET probe == media[cur]
           streams == [i \in 1..Len(probe.streams) |-> Stream(probe.streams[i])]
       IN  IF probe.returncode # 0
           THEN Fatal("parse_mediafile") /\ UNCHANGED input_file
           ELSE IF ~IndexesValid(streams)
           THEN Fatal("index_mismatch") /\ UNCHANGED input_file
           ELSE /\ input_file' = MediaFile(ARGS.files[cur], streams)
                /\ pc' = "parsed"
                /\ UNCHANGED exit_at
    /\ UNCHANGED <<others, inputVars, cur, plan, pathVars, extractVars, returncode, fs, dirs,
                   startVars, fs_exec, executeVars, events>>

\* 346-347
ListOnly ==
    /\ pc = "parsed"
    /\ ARGS.list
    /\ Return("list")
    /\ UNCHANGED <<others, inputVars, cur, input_file, plan, pathVars, extractVars, returncode,
                   fs, dirs, startVars, fs_exec, executeVars, events>>

\* planning that goes on to the gate although an edit was rejected.  C7
\* fails with it.
PlanUnstopped ==
    /\ pc = "parsed"
    /\ ~ARGS.list
    /\ plan' = PlanOf(ARGS, input_file)
    /\ IF plan'.action_list = <<>> THEN Return("no_actions")
       ELSE pc' = "confirm" /\ UNCHANGED exit_at
    /\ UNCHANGED <<others, inputVars, cur, input_file, pathVars, extractVars, returncode, fs, dirs,
                   startVars, fs_exec, executeVars, events>>

\* 349-435
Plan ==
    /\ pc = "parsed"
    /\ ~ARGS.list
    /\ plan' = PlanOf(ARGS, input_file)
    /\ IF plan'.status = "fatal" THEN Fatal(plan'.at)
       ELSE IF plan'.status = "crashed" THEN pc' = "crashed" /\ exit_at' = plan'.at
       ELSE IF plan'.action_list = <<>> THEN Return("no_actions")
       ELSE pc' = "confirm" /\ UNCHANGED exit_at
    /\ UNCHANGED <<others, inputVars, cur, input_file, pathVars, extractVars, returncode, fs, dirs,
                   startVars, fs_exec, executeVars, events>>

\* process_file going on to the paths without calling confirm (449 left
\* out).  C20 fails with it.
ConfirmUncalled ==
    /\ pc = "confirm"
    /\ pc' = "paths"
    /\ UNCHANGED <<others, inputVars, cur, exit_at, input_file, plan, pathVars, extractVars,
                   returncode, fs, dirs, startVars, fs_exec, executeVars, events>>

\* confirm, 41-44, called at 449: returns at once when confirmation is off,
\* else when the operator presses ENTER
Confirm ==
    /\ pc = "confirm"
    /\ Log("confirm", 0)
    /\ pc' = "paths"
    /\ UNCHANGED <<others, inputVars, cur, exit_at, input_file, plan, pathVars, extractVars,
                   returncode, fs, dirs, startVars, fs_exec, executeVars>>

\* the operator answers the prompt at 44 with CTRL-C: the handler at 12
\* exits the process
ConfirmAbort ==
    /\ pc = "confirm"
    /\ ARGS.confirm
    /\ pc' = "interrupted"
    /\ exit_at' = "confirm"
    /\ UNCHANGED <<others, inputVars, cur, input_file, plan, pathVars, extractVars, returncode,
                   fs, dirs, startVars, fs_exec, executeVars, events>>

\* the paths resolved without the check of the working path (459-460 left
\* out).  C4 fails with it.
ResolvePathsUnchecked ==
    /\ pc = "paths"
    /\ working_dir' = WorkingDir(ARGS, input_file)
    /\ working_file' = WorkingFile(ARGS, input_file)
    /\ output_file' = OutputFile(ARGS, input_file)
    /\ IF ContainerChange(ARGS, input_file) /\ Exists(fs, output_file')
       THEN Fatal("output_file_exists")
       ELSE pc' = "makedirs" /\ UNCHANGED exit_at
    /\ UNCHANGED <<others, inputVars, cur, input_file, plan, extractVars, returncode, fs, dirs,
                   startVars, fs_exec, executeVars, events>>

\* 451-466
ResolvePaths ==
    /\ pc = "paths"
    /\ working_dir' = WorkingDir(ARGS, input_file)
    /\ working_file' = WorkingFile(ARGS, input_file)
    /\ IF Exists(fs, working_file')
       THEN Fatal("working_file_exists") /\ UNCHANGED output_file
       ELSE /\ output_file' = OutputFile(ARGS, input_file)
            /\ IF ContainerChange(ARGS, input_file) /\ Exists(fs, output_file')
               THEN Fatal("output_file_exists")
               ELSE pc' = "makedirs" /\ UNCHANGED exit_at
    /\ UNCHANGED <<others, inputVars, cur, input_file, plan, extractVars, returncode, fs, dirs,
                   startVars, fs_exec, executeVars, events>>

\* the working directory made in dry-run too (469 without its second
\* condition).  C3 fails with it.
MakeDirsInDryRun ==
    /\ pc = "makedirs"
    /\ IF working_dir \notin dirs
       THEN dirs' = dirs \cup {working_dir} /\ Log("makedirs", 0)
       ELSE UNCHANGED <<dirs, events>>
    /\ pc' = IF ARGS.extract_subs THEN "extract_subtitles" ELSE "num_actions"
    /\ UNCHANGED <<others, inputVars, cur, exit_at, input_file, plan, pathVars, extractVars,
                   returncode, fs, startVars, fs_exec, executeVars>>

\* 469-474
MakeDirs ==
    /\ pc = "makedirs"
    /\ IF working_dir \notin dirs /\ ~ARGS.dry_run
       THEN dirs' = dirs \cup {working_dir} /\ Log("makedirs", 0)
       ELSE UNCHANGED <<dirs, events>>
    /\ pc' = IF ARGS.extract_subs THEN "extract_subtitles" ELSE "num_actions"
    /\ UNCHANGED <<others, inputVars, cur, exit_at, input_file, plan, pathVars, extractVars,
                   returncode, fs, startVars, fs_exec, executeVars>>

\* extract_subtitles, 302-311
ExtractSubtitles ==
    /\ pc = "extract_subtitles"
    /\ LET subtitle_streams == get_subtitle_streams(input_file)
           NotImageBased(stream) == ~is_image_based_subtitle(stream)
           text_streams == SelectSeq(subtitle_streams, NotImageBased)
       IN  IF subtitle_streams = <<>> \/ text_streams = <<>>
           THEN pc' = "num_actions" /\ UNCHANGED pending
           ELSE pc' = "extract_loop" /\ pending' = text_streams
    /\ UNCHANGED <<others, inputVars, cur, exit_at, input_file, plan, pathVars, sub_file,
                   destinations, returncode, fs, dirs, startVars, fs_exec, executeVars,
                   events>>

\* extract_subtitles, 313-321 and execute, 71-78: the next stream's output
\* path is resolved and the extraction is started; in dry-run execute
\* returns 0 without starting anything
ExtractLaunch ==
    /\ pc = "extract_loop"
    /\ pending # <<>>
    /\ sub_file' = resolve_new_subtitle_file_path(fs, Head(pending),
                                                  input_file.path.stem, working_dir)
    /\ IF ARGS.dry_run
       THEN /\ returncode' = 0
            /\ fs_exec' = fs
            /\ Log("return_extract", 0)
            /\ pending' = Tail(pending)
            /\ UNCHANGED <<pc, destinations, executeVars>>
       ELSE /\ Log("launch_extract", Head(pending).index)
            /\ destinations' = Append(destinations, sub_file')
            /\ Popen
            /\ pc' = "extract_running"
            /\ UNCHANGED <<returncode, pending, fs_exec>>
    /\ UNCHANGED <<others, inputVars, cur, exit_at, input_file, plan, pathVars, fs, dirs,
                   startVars>>

\* extract_subtitles going on without the return of execute (79-81 left
\* out): the next extraction starts while the child runs.  C19 fails with
\* it.
ExtractExitUnawaited ==
    /\ pc = "extract_running"
    /\ returncode' = process.returncode
    /\ fs_exec' = fs
    /\ Log("return_extract", process.returncode)
    /\ execute_at' = ""
    /\ pending' = Tail(pending)
    /\ pc' = "extract_loop"
    /\ UNCHANGED <<others, inputVars, cur, exit_at, input_file, plan, pathVars, sub_file, destinations,
                   fs,
                   dirs, startVars, process, pipe, output_reader>>

\* an extraction whose failure ends the run (322-323 as a fatal).  C15
\* fails with it.
ExtractExitFatal ==
    /\ pc = "extract_running"
    /\ execute_at = "join"
    /\ output_reader \in {"finished", "raised"}
    /\ returncode' = process.returncode
    /\ fs_exec' = fs
    /\ Log("return_extract", process.returncode)
    /\ execute_at' = ""
    /\ pending' = Tail(pending)
    /\ IF process.returncode # 0
       THEN Fatal("extract_failed")
       ELSE pc' = "extract_loop" /\ UNCHANGED exit_at
    /\ UNCHANGED <<others, inputVars, cur, input_file, plan, pathVars, sub_file, destinations,
                   fs,
                   dirs, startVars, process, pipe, output_reader>>

\* execute, 80-81 and extract_subtitles, 321-323: the reader thread is
\* joined and execute returns the child's code; a failure is printed and the
\* loop goes on
ExtractExit ==
    /\ pc = "extract_running"
    /\ execute_at = "join"
    /\ output_reader \in {"finished", "raised"}
    /\ returncode' = process.returncode
    /\ fs_exec' = fs
    /\ Log("return_extract", process.returncode)
    /\ execute_at' = ""
    /\ pending' = Tail(pending)
    /\ pc' = "extract_loop"
    /\ UNCHANGED <<others, inputVars, cur, exit_at, input_file, plan, pathVars, sub_file, destinations,
                   fs,
                   dirs, startVars, process, pipe, output_reader>>

\* the loop at 313 has no stream left
ExtractDone ==
    /\ pc = "extract_loop"
    /\ pending = <<>>
    /\ pc' = "num_actions"
    /\ UNCHANGED <<others, inputVars, cur, exit_at, input_file, plan, pathVars, extractVars,
                   returncode, fs, dirs, startVars, fs_exec, executeVars, events>>

\* 476-478
NumActions ==
    /\ pc = "num_actions"
    /\ IF plan.num_actions = 0
       THEN Return("only_extract")
       ELSE pc' = "main" /\ UNCHANGED exit_at
    /\ UNCHANGED <<others, inputVars, cur, input_file, plan, pathVars, extractVars, returncode,
                   fs, dirs, startVars, fs_exec, executeVars, events>>

\* 480-482 and execute, 71-78
MainLaunch ==
    /\ pc = "main"
    /\ plan' = [plan EXCEPT !.args = Append(@, Directive("output", 0, "", "base"))]
    /\ IF ARGS.dry_run
       THEN /\ returncode' = 0
            /\ fs_exec' = fs
            /\ Log("return_main", 0)
            /\ pc' = "check"
            /\ UNCHANGED executeVars
       ELSE /\ Log("launch_main", 0)
            /\ Popen
            /\ pc' = "main_running"
            /\ UNCHANGED <<returncode, fs_exec>>
    /\ UNCHANGED <<others, inputVars, cur, exit_at, input_file, pathVars, extractVars, fs, dirs,
                   startVars>>

\* the child process writes a chunk of output to the pipe; the write blocks
\* while the pipe is full
ProcessWrite ==
    /\ process.state = "running"
    /\ process.output > 0
    /\ pipe < PipeCapacity
    /\ process' = [process EXCEPT !.output = @ - 1]
    /\ pipe' = pipe + 1
    /\ UNCHANGED <<others, inputVars, cur, pc, exit_at, input_file, plan, pathVars, extractVars,
                   returncode, fs, dirs, startVars, fs_exec, output_reader, execute_at,
                   events>>

\* the child process has written all its output and exits, or is ended by
\* the signal that interrupted the run; what it leaves on disk and its code
\* are those of the invocation it ran
ProcessExit ==
    /\ process.state = "running"
    /\ process.output = 0 \/ pc = "interrupted"
    /\ \E o \in IF process.main
                 THEN MainOutcomes(fs, working_file, input_file.path.stem)
                 ELSE ExtractOutcomes(fs, sub_file, input_file.path.stem) :
        /\ fs' = o.disk
        /\ process' = [process EXCEPT !.state = "exited", !.returncode = o.rc]
        /\ Log("exit", o.rc)
    /\ UNCHANGED <<others, inputVars, cur, pc, exit_at, input_file, plan, pathVars, extractVars,
                   returncode, dirs, startVars, fs_exec, pipe, output_reader, execute_at>>

\* __read_output, 84-85: readline takes a chunk out of the pipe, and decode
\* in sys.stdout.encoding either gives the text to write or raises
\* UnicodeDecodeError, which ends the thread
ReadOutput ==
    /\ output_reader = "started"
    /\ pipe > 0
    /\ pipe' = pipe - 1
    /\ \E decodes \in BOOLEAN :
        output_reader' = IF decodes THEN "started" ELSE "raised"
    /\ UNCHANGED <<others, inputVars, cur, pc, exit_at, input_file, plan, pathVars, extractVars,
                   returncode, fs, dirs, startVars, fs_exec, process, execute_at, events>>

\* __read_output, 84 and 86: readline returns b'' once the pipe is empty
\* and its writing end closed; the stream is closed and the thread ends
ReadEnd ==
    /\ output_reader = "started"
    /\ pipe = 0
    /\ process.state = "exited"
    /\ output_reader' = "finished"
    /\ UNCHANGED <<others, inputVars, cur, pc, exit_at, input_file, plan, pathVars, extractVars,
                   returncode, fs, dirs, startVars, fs_exec, process, pipe, execute_at,
                   events>>

\* execute, 79: process.wait() returns when the child has exited
Wait ==
    /\ execute_at = "wait"
    /\ process.state = "exited"
    /\ execute_at' = "join"
    /\ UNCHANGED <<others, inputVars, cur, pc, exit_at, input_file, plan, pathVars, extractVars,
                   returncode, fs, dirs, startVars, fs_exec, process, pipe, output_reader,
                   events>>

\* execute, 80-81: the reader thread is joined and the child's code returned
MainExit ==
    /\ pc = "main_running"
    /\ execute_at = "join"
    /\ output_reader \in {"finished", "raised"}
    /\ returncode' = process.returncode
    /\ fs_exec' = fs
    /\ Log("return_main", process.returncode)
    /\ execute_at' = ""
    /\ pc' = "check"
    /\ UNCHANGED <<others, inputVars, cur, exit_at, input_file, plan, pathVars, extractVars, fs,
                   dirs, startVars, process, pipe, output_reader>>

\* the return code not looked at (484-485 left out).  C1 fails with it.
CheckReturnIgnored ==
    /\ pc = "check"
    /\ pc' = "cleanup"
    /\ UNCHANGED <<others, inputVars, cur, exit_at, input_file, plan, pathVars, extractVars,
                   returncode, fs, dirs, startVars, fs_exec, executeVars, events>>

\* a failed engine run whose partly written working file is removed before
\* the fatal exit.  C23 fails with it.
CheckReturnDiscarding ==
    /\ pc = "check"
    /\ IF returncode # 0
       THEN /\ Fatal("ffmpeg_failed")
            /\ fs' = IF Exists(fs, working_file) THEN Removed(fs, working_file) ELSE fs
       ELSE pc' = "cleanup" /\ UNCHANGED <<exit_at, fs>>
    /\ UNCHANGED <<others, inputVars, cur, input_file, plan, pathVars, extractVars, returncode,
                   dirs, startVars, fs_exec, executeVars, events>>

\* 484-487
CheckReturn ==
    /\ pc = "check"
    /\ IF returncode # 0
       THEN Fatal("ffmpeg_failed")
       ELSE pc' = "cleanup" /\ UNCHANGED exit_at
    /\ UNCHANGED <<others, inputVars, cur, input_file, plan, pathVars, extractVars, returncode,
                   fs, dirs, startVars, fs_exec, executeVars, events>>

\* cleanup that does not look at ARGS.cleanup (496-500 left out).  C6 fails
\* with it.
CleanupRegardless ==
    /\ pc = "cleanup"
    /\ IF ARGS.dry_run THEN Return("dry_run")
       ELSE IF ~Exists(fs, working_file) THEN Fatal("working_file_missing")
       ELSE pc' = "unlink" /\ UNCHANGED exit_at
    /\ UNCHANGED <<others, inputVars, cur, input_file, plan, pathVars, extractVars, returncode,
                   fs, dirs, startVars, fs_exec, executeVars, events>>

\* cleanup, 493-503
Cleanup ==
    /\ pc = "cleanup"
    /\ IF ARGS.dry_run THEN Return("dry_run")
       ELSE IF ~ARGS.cleanup THEN Return("no_cleanup")
       ELSE IF ~Exists(fs, working_file) THEN Fatal("working_file_missing")
       ELSE pc' = "unlink" /\ UNCHANGED exit_at
    /\ UNCHANGED <<others, inputVars, cur, input_file, plan, pathVars, extractVars, returncode,
                   fs, dirs, startVars, fs_exec, executeVars, events>>

\* cleanup, 505-506
Unlink ==
    /\ pc = "unlink"
    /\ IF Exists(fs, input_file.path)
       THEN /\ fs' = Removed(fs, input_file.path)
            /\ Log("unlink", 0)
            /\ pc' = "replace"
            /\ UNCHANGED exit_at
       ELSE /\ pc' = "crashed"              \* FileNotFoundError
            /\ exit_at' = "unlink"
            /\ UNCHANGED <<fs, events>>
    /\ UNCHANGED <<others, inputVars, cur, input_file, plan, pathVars, extractVars, returncode,
                   dirs, startVars, fs_exec, executeVars>>

\* cleanup, 508-509
Replace ==
    /\ pc = "replace"
    /\ fs' = Replaced(fs, working_file, output_file)
    /\ Log("replace", 0)
    /\ Return("committed")
    /\ UNCHANGED <<others, inputVars, cur, input_file, plan, pathVars, extractVars, returncode,
                   dirs, startVars, fs_exec, executeVars>>

\* the loop at 518-521 goes to the next file
NextFile ==
    /\ pc = "returned"
    /\ cur < Len(ARGS.files)
    /\ cur' = cur + 1
    /\ pc' = "process_file"
    /\ exit_at' = ""
    /\ input_file' = NoMediaFile
    /\ plan' = NoPlan
    /\ working_dir' = <<>>
    /\ working_file' = NoPath
    /\ output_file' = NoPath
    /\ pending' = <<>>
    /\ sub_file' = NoPath
    /\ destinations' = <<>>
    /\ fs_start' = fs
    /\ dirs_start' = dirs
    /\ UNCHANGED <<others, inputVars, returncode, fs, dirs, fs_exec, executeVars, events>>

\* the loop at 518-521 ends and with it the process
Finish ==
    /\ pc = "returned"
    /\ cur = Len(ARGS.files)
    /\ pc' = "finished"
    /\ UNCHANGED <<others, inputVars, cur, exit_at, input_file, plan, pathVars, extractVars,
                   returncode, fs, dirs, startVars, fs_exec, executeVars, events>>

\* a handler that removes the working file of the invocation in flight
\* before it exits.  C21 fails with it.
InterruptCleaningUp ==
    /\ pc \notin {"confirm", "fatal", "crashed", "interrupted", "finished"}
    /\ pc' = "interrupted"
    /\ exit_at' = pc
    /\ execute_at' = IF execute_at = "" THEN "" ELSE "interrupted"
    /\ fs' = IF pc = "main_running" /\ Exists(fs, working_file)
             THEN Removed(fs, working_file)
             ELSE fs
    /\ UNCHANGED <<others, inputVars, cur, input_file, plan, pathVars, extractVars, returncode,
                   dirs, startVars, fs_exec, process, pipe, output_reader, events>>

\* SIGINT, line 12: the handler calls sys.exit(1) in the main thread,
\* wherever it is; nothing of process_file runs after it, while a child
\* process and the reader thread started by execute go on
Interrupt ==
    /\ pc \notin {"confirm", "fatal", "crashed", "interrupted", "finished"}
    /\ pc' = "interrupted"
    /\ exit_at' = pc
    /\ execute_at' = IF execute_at = "" THEN "" ELSE "interrupted"
    /\ UNCHANGED <<others, inputVars, cur, input_file, plan, pathVars, extractVars, returncode,
                   fs, dirs, startVars, fs_exec, process, pipe, output_reader, events>>

\* the operator gives the same command line again after a run that was
\* interrupted with the main invocation in flight and left its working file
\* behind, once the child and the reader of that run have ended, the input
\* files being as they were: 511 again, on the disk the interrupted run
\* left.  (A run that left no working file starts as the first run did.)
Rerun ==
    /\ run < MaxRuns
    /\ pc = "interrupted"
    /\ exit_at = "main_running"
    /\ Exists(fs, working_file)
    /\ process.state # "running"
    /\ output_reader # "started"
    /\ \A i \in 1..Len(ARGS.files) :
        /\ Exists(fs, ARGS.files[i])
        /\ fs[ARGS.files[i]] = Content("orig", ARGS.files[i].stem)
    /\ run' = run + 1
    /\ fs0' = fs
    /\ dirs0' = dirs
    /\ fs_start' = fs
    /\ dirs_start' = dirs
    /\ fs_exec' = fs
    /\ cur' = 1
    /\ pc' = "process_file"
    /\ exit_at' = ""
    /\ input_file' = NoMediaFile
    /\ plan' = NoPlan
    /\ working_dir' = <<>>
    /\ working_file' = NoPath
    /\ output_file' = NoPath
    /\ pending' = <<>>
    /\ sub_file' = NoPath
    /\ destinations' = <<>>
    /\ returncode' = 0
    /\ process' = NoProcess
    /\ pipe' = 0
    /\ output_reader' = "none"
    /\ execute_at' = ""
    /\ events' = <<>>
    /\ UNCHANGED <<others, ARGS, media, fs, dirs>>

Next ==
    \/ ParseMediafile
    \/ ListOnly
    \/ Plan
    \/ Confirm
    \/ ConfirmAbort
    \/ ResolvePaths
    \/ MakeDirs
    \/ ExtractSubtitles
    \/ ExtractLaunch
    \/ ExtractExit
    \/ ExtractDone
    \/ NumActions
    \/ MainLaunch
    \/ ProcessWrite
    \/ ProcessExit
    \/ ReadOutput
    \/ ReadEnd
    \/ Wait
    \/ MainExit
    \/ CheckReturn
    \/ Cleanup
    \/ Unlink
    \/ Replace
    \/ NextFile
    \/ Finish
    \/ Interrupt
    \/ Rerun

Spec == Init /\ [][Next]_vars

\* the scheduling of an invocation: the child process and the reader thread
\* run whenever they can, and wait() and join() return once what they wait
\* for has happened
ExecuteFairness ==
    /\ WF_vars(ProcessWrite)
    /\ WF_vars(ProcessExit)
    /\ WF_vars(ReadOutput)
    /\ WF_vars(ReadEnd)
    /\ WF_vars(Wait)
    /\ WF_vars(MainExit)
    /\ WF_vars(ExtractExit)

FairSpec == Init /\ [][Next]_vars /\ ExecuteFairness

-----------------------------------------------------------------------------
(* What the claims speak of                                                *)

\* the input path of the file being processed
Original == ARGS.files[cur]

OriginalContent == Content("orig", Original.stem)

\* the events of the current file, in order
IsCurrent(e) == e.file = cur
CurrentEvents == SelectSeq(events, IsCurrent)

Happened(op) == \E i \in 1..Len(events) : events[i].op = op /\ events[i].file = cur

Launches == {"launch_extract", "launch_main"}
DiskSteps == {"makedirs", "unlink", "replace"}

NoneHappened(ops) == \A i \in 1..Len(events) : events[i].file = cur => events[i].op \notin ops

\* the main invocation of the current file has returned, and what
MainReturned == Happened("return_main")
MainCode == (CHOOSE e \in Range(CurrentEvents) : e.op = "return_main").arg

\* the events of the current file after the main invocation returned
RECURSIVE After(_, _)
After(s, op) ==
    IF s = <<>> THEN <<>>
    ELSE IF Head(s).op = op THEN Tail(s) ELSE After(Tail(s), op)

OpsAfterMain == [i \in 1..Len(After(CurrentEvents, "return_main")) |->
                    After(CurrentEvents, "return_main")[i].op]

Ended == pc \in {"returned", "finished", "fatal", "crashed", "interrupted"}

DiskUnchangedSinceStart == fs = fs_start /\ dirs = dirs_start

-----------------------------------------------------------------------------
(* C1: when the main engine invocation returns a non-zero code, the run    *)
(* goes to fatal and nowhere else, neither the unlink of the original nor  *)
(* the rename happens, the original exists with its content, and the disk  *)
(* is as the engine left it (the working file, whole, partial or absent,   *)
(* is not removed).                                                        *)
C1_EngineFailureAborts ==
    (MainReturned /\ MainCode # 0) =>
        /\ pc \in {"check", "fatal", "interrupted"}
        /\ pc = "fatal" => exit_at = "ffmpeg_failed"
        /\ NoneHappened({"unlink", "replace"})
        /\ OpsAfterMain = <<>>
        /\ Exists(fs, Original) /\ fs[Original] = OriginalContent
        /\ fs = fs_exec

\* the run has ended in fatal after the engine failed and left a partial
\* working file, which is still there
C1_Witness ==
    /\ pc = "fatal"
    /\ exit_at = "ffmpeg_failed"
    /\ MainReturned /\ MainCode # 0
    /\ Exists(fs, working_file)
    /\ fs[working_file] = Content("partial", Original.stem)

(* C2: when the main engine invocation returns 0 with cleanup on and       *)
(* dry-run off, the run never aborts; once process_file has returned, the  *)
(* steps after the engine were the unlink of the original and then the     *)
(* rename, the final path holds the engine's output, the working file is   *)
(* gone, no file holds the original's content, and the final path is the   *)
(* original path when the container is kept and no directory is made.      *)
C2_CommitOnSuccess ==
    (MainReturned /\ MainCode = 0 /\ ARGS.cleanup /\ ~ARGS.dry_run) =>
        /\ pc \in {"check", "cleanup", "unlink", "replace", "returned", "finished",
                   "interrupted"}
        /\ pc = "replace" => OpsAfterMain = <<"unlink">>
        /\ pc \in {"returned", "finished"} =>
            /\ exit_at = "committed"
            /\ OpsAfterMain = <<"unlink", "replace">>
            /\ Exists(fs, output_file)
            /\ fs[output_file] = Content("out", Original.stem)
            /\ ~Exists(fs, working_file)
            /\ \A q \in DOMAIN fs : fs[q] # OriginalContent
            /\ (~ContainerChange(ARGS, input_file) /\ ~ARGS.create_dir)
                    => output_file = Original

\* a commit that changed the container has completed
C2_Witness ==
    /\ pc = "returned"
    /\ exit_at = "committed"
    /\ ContainerChange(ARGS, input_file)
    /\ MainReturned /\ MainCode = 0

(* C3: in dry-run mode no engine process is launched, every execute call   *)
(* returns 0, no directory is made, no file is unlinked or renamed, and    *)
(* the disk is at every moment the disk the run started on.                *)
C3_DryRunChangesNothing ==
    ARGS.dry_run =>
        /\ \A i \in 1..Len(events) :
            /\ events[i].op \notin Launches \cup DiskSteps
            /\ events[i].op \in {"return_extract", "return_main"} => events[i].arg = 0
        /\ returncode = 0
        /\ fs = fs0
        /\ dirs = dirs0

\* a dry run with directory isolation and subtitle extraction has gone
\* through an extraction and the main invocation
C3_Witness ==
    /\ ARGS.dry_run /\ ARGS.create_dir /\ ARGS.extract_subs
    /\ pc = "returned"
    /\ exit_at = "dry_run"
    /\ Happened("return_extract")
    /\ Happened("return_main")
    /\ working_dir \notin dirs

(* C4, as stated: when the working path exists as processing of a file     *)
(* starts, or the container changes and the final path exists, processing  *)
(* of that file ends in an abort (list mode aside, where nothing is        *)
(* processed), with no engine launched and the disk unchanged.             *)
PlannedFile == MediaFile(Original, <<>>)

Blocked ==
    \/ Exists(fs_start, WorkingFile(ARGS, PlannedFile))
    \/ /\ ContainerChange(ARGS, PlannedFile)
       /\ Exists(fs_start, OutputFile(ARGS, PlannedFile))

C4_BlockedEndsFatal ==
    (Blocked /\ ~ARGS.list /\ Ended) =>
        /\ pc \in {"fatal", "crashed", "interrupted"}
        /\ NoneHappened(Launches \cup DiskSteps)
        /\ DiskUnchangedSinceStart

(* C4, amended: when the working path exists as processing of a file       *)
(* starts, or the container changes and the final path exists, no engine   *)
(* invocation (extraction or main) is launched for the file and no         *)
(* directory or file is created, deleted or renamed; and once the          *)
(* confirmation gate is passed, the path checks end the run in fatal.      *)
C4_BlockedBeforeEngine ==
    Blocked =>
        /\ NoneHappened(Launches \cup DiskSteps)
        /\ DiskUnchangedSinceStart
        /\ pc \notin {"makedirs", "extract_subtitles", "extract_loop", "extract_running",
                      "num_actions", "main", "main_running", "check", "cleanup",
                      "unlink", "replace"}
        /\ (Happened("confirm") /\ pc \notin {"paths", "interrupted"}) =>
                /\ pc = "fatal"
                /\ exit_at \in {"working_file_exists", "output_file_exists"}

\* a run that asked for subtitle extraction has ended in fatal at the check
\* of the working path, after the gate
C4_Witness ==
    /\ Blocked
    /\ ARGS.extract_subs
    /\ get_subtitle_streams(input_file) # <<>>
    /\ Happened("confirm")
    /\ pc = "fatal"
    /\ exit_at = "working_file_exists"

(* C5: when the rename to the final path has happened, the final path did  *)
(* not exist when the run started, or it is the original input path.       *)
C5_RenameOverwritesNothing ==
    Happened("replace") => (~Exists(fs0, output_file) \/ output_file = Original)

(* C6: when the main engine invocation returns 0 with cleanup disabled     *)
(* (and dry-run off, so that the engine did run), neither the unlink nor   *)
(* the rename happens and the run does not abort; once process_file has    *)
(* returned, the original exists with its content, the working file        *)
(* exists, and the final path is as it was when processing started.        *)
C6_NoCleanupKeepsBoth ==
    (MainReturned /\ MainCode = 0 /\ ~ARGS.cleanup /\ ~ARGS.dry_run) =>
        /\ pc \in {"check", "cleanup", "returned", "finished", "interrupted"}
        /\ NoneHappened({"unlink", "replace"})
        /\ OpsAfterMain = <<>>
        /\ pc \in {"returned", "finished"} =>
            /\ exit_at = "no_cleanup"
            /\ Exists(fs, Original) /\ fs[Original] = OriginalContent
            /\ Exists(fs, working_file)
            /\ fs[working_file] = Content("out", Original.stem)
            /\ Exists(fs, output_file) <=> Exists(fs_start, output_file)
            /\ Exists(fs, output_file) => fs[output_file] = fs_start[output_file]

\* a run without cleanup that changes the container has returned, the final
\* path still unused
C6_Witness ==
    /\ pc = "returned"
    /\ exit_at = "no_cleanup"
    /\ ContainerChange(ARGS, input_file)
    /\ ~Exists(fs, output_file)
    /\ Exists(fs, working_file)

(* C7: when the validation of a requested edit fails, the run has aborted  *)
(* (fatal or an uncaught exception), and for that file the confirmation    *)
(* gate was not reached, nothing was launched and the disk did not change. *)
C7_InvalidEditAbortsFirst ==
    plan.status \in {"fatal", "crashed"} =>
        /\ pc \in {"fatal", "crashed"}
        /\ exit_at = plan.at
        /\ NoneHappened({"confirm"} \cup Launches \cup DiskSteps)
        /\ DiskUnchangedSinceStart

\* a request whose retag was valid and planned, and whose delete-by-index
\* then failed
C7_Witness ==
    /\ plan.status = "fatal"
    /\ plan.at = "delete_stream"
    /\ ARGS.set_stream_language.given
    /\ plan.num_actions >= 1
    /\ pc = "fatal"

(* C8: for delete-by-index and retag-by-index, an index outside            *)
(* 0..len(streams)-1 ends planning at that edit with no directive for it,  *)
(* and an index inside is accepted and addresses the stream of that index. *)
StreamCount == Len(input_file.streams)
InRange(i) == 0 <= i /\ i < StreamCount

DirectivesBy(by) == SelectSeq(plan.args, LAMBDA d : d.by = by)
LinesBy(by) == SelectSeq(plan.action_list, LAMBDA l : l.by = by)

Planned == plan.status # ""
Rejected(at) == plan.status \in {"fatal", "crashed"} /\ plan.at = at

RetagIndex == ARGS.set_stream_language.stream
RetagLanguage == ARGS.set_stream_language.language
DeleteIndexes == [i \in 1..Len(ARGS.delete_stream.list) |-> ARGS.delete_stream.list[i].v]

\* the requested delete indexes before the first one that is out of range
RECURSIVE ValidPrefix(_)
ValidPrefix(s) ==
    IF s = <<>> \/ ~InRange(Head(s)) THEN <<>> ELSE <<Head(s)>> \o ValidPrefix(Tail(s))

C8_IndexRange ==
    Planned =>
        /\ ARGS.set_stream_language.given =>
            IF InRange(RetagIndex)
            THEN Rejected("set_stream_language")
                 \/ DirectivesBy("set_stream_language") =
                        <<Directive("-metadata:s", RetagIndex, RetagLanguage,
                                    "set_stream_language")>>
            ELSE /\ Rejected("set_stream_language")
                 /\ DirectivesBy("set_stream_language") = <<>>
        /\ (ARGS.delete_stream.given /\ plan.at # "set_stream_language") =>
            /\ DirectivesBy("delete_stream") =
                    [i \in 1..Len(ValidPrefix(DeleteIndexes)) |->
                        Directive("-map -0:", ValidPrefix(DeleteIndexes)[i], "",
                                  "delete_stream")]
            /\ Rejected("delete_stream") <=> ValidPrefix(DeleteIndexes) # DeleteIndexes

(* C9: for a retag request with 0 <= index < len(streams): when the        *)
(* requested language is the stream's language (the tag, or "unknown"      *)
(* without one) planning ends in fatal at the retag with no directive and  *)
(* no plan line for it; when it differs the retag is planned with exactly  *)
(* one metadata directive, for that index and language, and one plan line. *)
TaggedLanguage(raw) ==
    IF raw.has_tags /\ raw.language # "" THEN raw.language ELSE "unknown"

C9_Retag ==
    (Planned /\ ARGS.set_stream_language.given /\ InRange(RetagIndex)) =>
        IF RetagLanguage = TaggedLanguage(media[cur].streams[RetagIndex + 1])
        THEN /\ plan.status = "fatal"
             /\ plan.at = "set_stream_language"
             /\ DirectivesBy("set_stream_language") = <<>>
             /\ LinesBy("set_stream_language") = <<>>
        ELSE /\ plan.at # "set_stream_language"
             /\ DirectivesBy("set_stream_language") =
                    <<Directive("-metadata:s", RetagIndex, RetagLanguage,
                                "set_stream_language")>>
             /\ LinesBy("set_stream_language") =
                    <<Line("update_language", RetagIndex, "set_stream_language")>>

\* a stream without a language tag has been retagged in a plan that went on
C9_Witness ==
    /\ Planned /\ ARGS.set_stream_language.given /\ InRange(RetagIndex)
    /\ ~media[cur].streams[RetagIndex + 1].has_tags
    /\ RetagLanguage = "eng"
    /\ plan.status = "ok"
    /\ Len(DirectivesBy("set_stream_language")) = 1
    /\ pc = "confirm"

(* C10: for "delete all audio streams except N" with 0 <= N < the number   *)
(* of audio streams, the exclusions planned for it are those of the audio  *)
(* streams whose position among the audio streams is not N: one less than  *)
(* there are audio streams, and never the N-th audio stream.               *)
AudioStreams == get_audio_streams(input_file)
ExceptN == ARGS.delete_audio_streams_except.n

\* the audio streams from position i on whose position counted from 0 is not n
RECURSIVE OthersFrom(_, _, _)
OthersFrom(streams, i, n) ==
    IF i > Len(streams) THEN <<>>
    ELSE (IF i - 1 # n THEN <<streams[i]>> ELSE <<>>) \o OthersFrom(streams, i + 1, n)

C10_DeleteAudioExcept ==
    (/\ Planned
     /\ ARGS.delete_audio_streams_except.given
     /\ plan.at \notin {"set_stream_language", "delete_stream"}
     /\ 0 <= ExceptN /\ ExceptN < Len(AudioStreams)) =>
        /\ DirectivesBy("delete_audio_streams_except") =
                Exclusions(OthersFrom(AudioStreams, 1, ExceptN),
                           "delete_audio_streams_except")
        /\ Len(DirectivesBy("delete_audio_streams_except")) = Len(AudioStreams) - 1
        /\ \A i \in 1..Len(DirectivesBy("delete_audio_streams_except")) :
                DirectivesBy("delete_audio_streams_except")[i].idx
                    # AudioStreams[ExceptN + 1].index

(* C11: for "delete all audio streams except N" with N < 0 or N >= the     *)
(* number of audio streams, planning ends in fatal at that edit, no        *)
(* exclusion is planned for it and no engine invocation is launched.       *)
C11_DeleteAudioExceptOutOfRange ==
    (/\ Planned
     /\ ARGS.delete_audio_streams_except.given
     /\ plan.at \notin {"set_stream_language", "delete_stream"}
     /\ (ExceptN < 0 \/ ExceptN >= Len(AudioStreams))) =>
        /\ plan.status = "fatal"
        /\ plan.at = "delete_audio_streams_except"
        /\ DirectivesBy("delete_audio_streams_except") = <<>>
        /\ NoneHappened(Launches)

(* C12: once parse_mediafile has returned, the model holds the probed      *)
(* streams in their order, each with the index the probe reported, and     *)
(* every stream sits at its own index; when a probed index is not its      *)
(* position the run has ended in fatal in parse_mediafile, without a       *)
(* model and without a plan.  Planning runs only on a returned model.      *)
Probed == media[cur].streams

C12_IndexInvariant ==
    /\ input_file # NoMediaFile =>
        /\ Len(input_file.streams) = Len(Probed)
        /\ \A i \in 1..Len(Probed) :
            /\ input_file.streams[i].index = i - 1
            /\ input_file.streams[i].index = Probed[i].index
    /\ (/\ pc \notin {"process_file", "interrupted"}
        /\ media[cur].returncode = 0
        /\ \E i \in 1..Len(Probed) : Probed[i].index # i - 1) =>
            /\ pc = "fatal"
            /\ exit_at = "index_mismatch"
            /\ input_file = NoMediaFile
            /\ ~Planned
    /\ Planned => input_file # NoMediaFile

\* the probe reported two streams, the second with the index of the first,
\* and the run has ended in parse_mediafile
C12_Witness ==
    /\ pc = "fatal"
    /\ exit_at = "index_mismatch"
    /\ Len(Probed) = 2
    /\ Probed[1].index = 0
    /\ Probed[2].index = 0

(* C13: when delete-subs is requested and the edits before it are valid,   *)
(* planning goes on; with at least one subtitle stream the edit adds       *)
(* exactly the directive -sn, one plan line and one action; with none it   *)
(* adds no directive and no action, only the plan line saying that no      *)
(* subtitle stream exists.                                                 *)
WithoutDeleteSubs == PlanOf([ARGS EXCEPT !.delete_subs = FALSE], input_file)

C13_DeleteSubs ==
    (Planned /\ ARGS.delete_subs /\ WithoutDeleteSubs.status = "ok") =>
        /\ plan.status = "ok"
        /\ IF get_subtitle_streams(input_file) # <<>>
           THEN /\ DirectivesBy("delete_subs") = <<Directive("-sn", 0, "", "delete_subs")>>
                /\ LinesBy("delete_subs") = <<Line("delete_subs", 0, "delete_subs")>>
                /\ plan.num_actions = WithoutDeleteSubs.num_actions + 1
           ELSE /\ DirectivesBy("delete_subs") = <<>>
                /\ LinesBy("delete_subs") = <<Line("no_subs_to_delete", 0, "delete_subs")>>
                /\ plan.num_actions = WithoutDeleteSubs.num_actions

\* delete-subs alone on a file with streams but no subtitle stream: the plan
\* holds the informational line only and the run is at the gate
C13_Witness ==
    /\ Planned /\ ARGS.delete_subs /\ ~ARGS.extract_subs
    /\ input_file.streams # <<>>
    /\ get_subtitle_streams(input_file) = <<>>
    /\ plan.num_actions = 0
    /\ Len(plan.action_list) = 1
    /\ pc = "confirm"

(* C14: when the container is kept and planning yields no directive and    *)
(* no subtitle extraction, processing of the file ends without a fatal     *)
(* error (the operator's abort at the prompt aside), no engine invocation  *)
(* is launched and the disk stays as it was when processing started.       *)
Extractable ==
    SelectSeq(get_subtitle_streams(input_file), LAMBDA s : ~is_image_based_subtitle(s))

NothingToDo ==
    /\ Planned
    /\ plan.status = "ok"
    /\ ~ContainerChange(ARGS, input_file)
    /\ plan.num_actions = 0
    /\ (ARGS.extract_subs => Extractable = <<>>)

ExtractableIndexes == [i \in 1..Len(Extractable) |-> Extractable[i].index]

ArgsOf(op) ==
    LET s == SelectSeq(CurrentEvents, LAMBDA e : e.op = op)
    IN  [i \in 1..Len(s) |-> s[i].arg]

IsPrefix(s, t) == Len(s) <= Len(t) /\ \A i \in 1..Len(s) : s[i] = t[i]

PastExtraction ==
    \/ pc \in {"num_actions", "main", "main_running", "check", "cleanup", "unlink",
               "replace"}
    \/ Happened("launch_main")
    \/ MainReturned
    \/ pc \in {"returned", "finished"} /\ exit_at = "only_extract"

C15_Extraction ==
    /\ IsPrefix(ArgsOf("launch_extract"), ExtractableIndexes)
    /\ Len(ArgsOf("return_extract")) <= Len(Extractable)
    /\ ~ARGS.extract_subs => ArgsOf("return_extract") = <<>>
    /\ ARGS.dry_run => ArgsOf("launch_extract") = <<>>
    /\ (ARGS.extract_subs /\ PastExtraction) =>
        /\ Len(ArgsOf("return_extract")) = Len(Extractable)
        /\ ~ARGS.dry_run => ArgsOf("launch_extract") = ExtractableIndexes
    /\ (ArgsOf("return_extract") # <<>> /\ Ended /\ pc # "interrupted") =>
        /\ Len(ArgsOf("return_extract")) = Len(Extractable)
        /\ plan.num_actions > 0 => MainReturned
    /\ (/\ ARGS.extract_subs
        /\ Happened("confirm")
        /\ pc \in {"fatal", "crashed"}
        /\ exit_at \notin {"working_file_exists", "output_file_exists"}) => MainReturned

\* of two text subtitle streams the first extraction failed, the second was
\* launched all the same, and so was the main invocation
C15_Witness ==
    /\ Len(ArgsOf("return_extract")) = 2
    /\ ArgsOf("return_extract")[1] # 0
    /\ ArgsOf("launch_extract") = <<0, 1>>
    /\ Happened("launch_main")

(* C16: the path resolve_new_subtitle_file_path returns for a stream lies  *)
(* in the destination directory and is named after the input stem and the  *)
(* stream's language string; it is the name without a number when that     *)
(* does not exist, else the name with the smallest k >= 1 whose file does  *)
(* not exist (every smaller number, and the name without one, exists); and *)
(* it does not exist on the disk of the call.                              *)
SidecarResolved ==
    \/ pc = "extract_running" /\ process.state = "running"
    \/ ARGS.dry_run /\ sub_file # NoPath

Numbered(path, k) == [path EXCEPT !.n = k]

C16_FirstFreeSuffix ==
    SidecarResolved =>
        /\ sub_file.dir = working_dir
        /\ sub_file.stem = Original.stem
        /\ sub_file.ext = "srt"
        /\ pc = "extract_running" => sub_file.tag = LanguageStr(Head(pending))
        /\ ~Exists(fs, sub_file)
        /\ \A k \in 0..(sub_file.n - 1) : Exists(fs, Numbered(sub_file, k))

\* the name without a number and the name with 1 exist, and the second
\* extraction of the file is started on the name with 2
C16_Witness ==
    /\ pc = "extract_running"
    /\ process.state = "running"
    /\ sub_file.n = 2
    /\ Exists(fs, Numbered(sub_file, 0))
    /\ fs[Numbered(sub_file, 0)] = Content("other", "")
    /\ Exists(fs, Numbered(sub_file, 1))

(* C17: whenever execute has returned from an invocation it started, the   *)
(* child has exited with all its output written, the reader thread has     *)
(* ended and nothing the child wrote is left unread in the pipe; outside   *)
(* execute no caller is waiting.  So no step after execute (the    *)
(* check of the code, the unlink, the rename) happens with child output    *)
(* unread.                                                                 *)
ExecuteReturned == process.state # "none" /\ execute_at = ""

C17_ReturnAfterDrain ==
    /\ pc \notin {"main_running", "extract_running", "interrupted"} => execute_at = ""
    /\ ExecuteReturned =>
        /\ process.state = "exited"
        /\ process.output = 0
        /\ output_reader \in {"finished", "raised"}
        /\ pipe = 0

(* C18: under fair scheduling of the child, the reader thread and the      *)
(* caller, every invocation that execute starts comes to its end: the      *)
(* child exits, the reader thread ends and execute returns.                *)
C18_ExecuteReturns ==
    /\ (process.state = "running") ~> (process.state = "exited")
    /\ (output_reader = "started") ~> (output_reader \in {"finished", "raised"})
    /\ (execute_at = "wait") ~> (execute_at \in {"", "interrupted"})

(* C19: at every moment of the run at most one child process has been      *)
(* launched and not yet exited, and a reader thread runs only inside the   *)
(* invocation that started it; an invocation has returned before the next  *)
(* is launched; the steps of the files follow the order of the arguments,  *)
(* none for a file before the loop is at it, and a file's processing       *)
(* starts with no child and no reader left running; within a file every    *)
(* extraction comes before the main invocation.                            *)
Count(k, ops) == Cardinality({i \in 1..k : events[i].op \in ops})

InFlight(k) == Count(k, Launches) - Count(k, {"exit"})

Returns == {"return_extract", "return_main"}

C19_OneAtATime ==
    /\ \A k \in 0..Len(events) : InFlight(k) \in {0, 1}
    /\ \A k \in 1..Len(events) :
        events[k].op \in Launches => Count(k - 1, Launches) = Count(k - 1, Returns)
    /\ \A i, j \in 1..Len(events) : i < j => events[i].file <= events[j].file
    /\ \A i \in 1..Len(events) : events[i].file <= cur
    /\ \A i, j \in 1..Len(events) :
        (/\ events[i].file = events[j].file
         /\ events[i].op \in {"launch_main", "return_main"}
         /\ events[j].op \in {"launch_extract", "return_extract"}) => j < i
    /\ (process.state = "running" \/ output_reader = "started") =>
            pc \in {"main_running", "extract_running", "interrupted"}
    /\ pc \in {"main_running", "extract_running"} => InFlight(Len(events)) = 1 - 
            (IF process.state = "exited" THEN 1 ELSE 0)

\* the main invocation of the second file is running, after that of the
\* first file has been launched, has exited and has returned
C19_Witness ==
    /\ cur = 2
    /\ pc = "main_running"
    /\ process.state = "running"
    /\ \E i \in 1..Len(events) : events[i].file = 1 /\ events[i].op = "return_main"
    /\ InFlight(Len(events)) = 1

(* C20: with confirmation on, every step of a file that launches, ends or  *)
(* returns from an invocation, makes the directory, unlinks or renames     *)
(* comes after the return of confirm() for that file, and the disk differs *)
(* from the disk at the start of the file only after it; when the operator *)
(* aborts at the prompt no such step has happened for the file and the     *)
(* disk is as it was when the file's processing started.                   *)
GatedSteps == Launches \cup DiskSteps \cup Returns \cup {"exit"}

C20_GateFirst ==
    /\ ARGS.confirm =>
        /\ \A i \in 1..Len(events) :
            events[i].op \in GatedSteps =>
                \E j \in 1..(i - 1) :
                    events[j].op = "confirm" /\ events[j].file = events[i].file
        /\ ~Happened("confirm") => DiskUnchangedSinceStart
    /\ (pc = "interrupted" /\ exit_at = "confirm") =>
        /\ ARGS.confirm
        /\ NoneHappened(GatedSteps \cup {"confirm"})
        /\ DiskUnchangedSinceStart

\* the first file was committed after its gate, and the operator has
\* aborted at the gate of the second file
C20_Witness ==
    /\ ARGS.confirm
    /\ cur = 2
    /\ pc = "interrupted"
    /\ \E i \in 1..Len(events) : events[i].file = 1 /\ events[i].op = "replace"
    /\ fs # fs0


-----------------------------------------------------------------------------
(* C21: a run interrupted while an engine invocation is in flight takes no *)
(* cleanup step: the original is neither deleted nor renamed, nothing that *)
(* was on disk when the file's processing began is gone, and neither the   *)
(* interrupt nor any step after it removes or changes a file, the working  *)
(* file included.  A later run                                             *)
(* of the same command line, on a file whose working file was left behind  *)
(* and for which at least one action is planned, launches no engine and    *)
(* changes nothing on disk, the leftover included; it gets no further than *)
(* the check of the working path, where it ends in fatal.                  *)
InterruptedInFlight == pc = "interrupted" /\ exit_at \in {"main_running", "extract_running"}

Leftover ==
    /\ run > 1
    /\ Exists(fs0, WorkingFile(ARGS, PlannedFile))
    /\ Exists(fs_start, WorkingFile(ARGS, PlannedFile))

NothingCleaned ==
    InterruptedInFlight =>
        /\ NoneHappened({"unlink", "replace"})
        /\ Exists(fs, Original)
        /\ fs[Original] = Content("orig", Original.stem)
        /\ \A p \in DOMAIN fs_start : Exists(fs, p) /\ fs[p] = fs_start[p]

LeftoverCaught ==
    (Leftover /\ plan.status = "ok" /\ plan.num_actions >= 1) =>
        /\ NoneHappened(Launches \cup DiskSteps)
        /\ DiskUnchangedSinceStart
        /\ fs[WorkingFile(ARGS, PlannedFile)] = fs0[WorkingFile(ARGS, PlannedFile)]
        /\ pc \in {"confirm", "paths", "fatal", "interrupted"}
        /\ pc = "fatal" => exit_at = "working_file_exists"
        /\ pc = "interrupted" => exit_at \in {"confirm", "paths"}

C21_InterruptLeavesLeftover ==
    /\ [](NothingCleaned /\ LeftoverCaught)
    /\ [][pc' = "interrupted" =>
            \A p \in DOMAIN fs : Exists(fs', p) /\ fs'[p] = fs[p]]_vars

\* the second run has ended in fatal at the check of the working path, on
\* the partly written working file that the interrupted engine left
C21_Witness ==
    /\ Leftover
    /\ fs0[WorkingFile(ARGS, PlannedFile)].kind = "partial"
    /\ plan.status = "ok"
    /\ plan.num_actions >= 1
    /\ pc = "fatal"
    /\ exit_at = "working_file_exists"


-----------------------------------------------------------------------------
(* C22: when a plan retags the stream at input index i, keeps it and       *)
(* excludes a stream of lower index, the engine, which numbers the streams *)
(* it keeps consecutively from 0 and reads the stream specifier of         *)
(* -metadata:s: as the number of an output stream, sets the language of    *)
(* the stream that had input index i and of no other.                      *)

\* the streams of the input that the directives keep, in input order: the
\* engine's output streams 0, 1, ...
Dropped(args, stream) ==
    \E k \in 1..Len(args) :
        \/ args[k].op = "-map -0:" /\ args[k].idx = stream.index
        \/ args[k].op = "-dn" /\ stream.type = "data"
        \/ args[k].op = "-sn" /\ is_subtitle(stream)

OutputStreams(args, streams) == SelectSeq(streams, LAMBDA stream : ~Dropped(args, stream))

\* the input indexes of the streams whose language the engine sets
RetagTargets(args, streams) ==
    LET out == OutputStreams(args, streams)
    IN  {out[d.idx + 1].index :
            d \in {args[k] : k \in {k \in 1..Len(args) :
                                        /\ args[k].op = "-metadata:s"
                                        /\ args[k].idx + 1 \in 1..Len(out)}}}

RetagAfterDeletion ==
    /\ plan.status = "ok"
    /\ ARGS.set_stream_language.given
    /\ InRange(RetagIndex)
    /\ \E k \in 1..Len(plan.args) :
        /\ plan.args[k].op = "-map -0:"
        /\ plan.args[k].idx < RetagIndex
    /\ ~Dropped(plan.args, input_file.streams[RetagIndex + 1])

-----------------------------------------------------------------------------
(* C24, as stated: within one run of extract_subtitles no two extractions  *)
(* that were started have the same destination path.                       *)
C24_DistinctDestinations ==
    \A i, j \in 1..Len(destinations) : i # j => destinations[i] # destinations[j]

(* C24, amended: the destination given to an extraction is a path at which *)
(* no file exists at that moment, and two extractions of one run of        *)
(* extract_subtitles have the same destination only when the earlier one   *)
(* returned a non-zero code (and, the path being free again, left no       *)
(* file).                                                                  *)
C24_FreshDestinations ==
    /\ [](\A i, j \in 1..Len(destinations) :
            (i < j /\ destinations[i] = destinations[j]) =>
                /\ i <= Len(ArgsOf("return_extract"))
                /\ ArgsOf("return_extract")[i] # 0)
    /\ [][(destinations' # destinations /\ destinations' # <<>>) =>
            ~Exists(fs, destinations'[Len(destinations')])]_vars

\* two streams of the same language were extracted: the first failed and
\* left nothing, the second was given the same path and wrote its file
C24_Witness ==
    /\ Len(destinations) = 2
    /\ destinations[1] = destinations[2]
    /\ ArgsOf("return_extract") = <<1, 0>>
    /\ Exists(fs, destinations[2])
    /\ fs[destinations[2]] = Content("srt", Original.stem)


-----------------------------------------------------------------------------
(* C23, as stated: in every state of a run that is not a dry run, the      *)
(* original of the file being processed or its working file exists.        *)
WorkingPath(i) == WorkingFile(ARGS, MediaFile(ARGS.files[i], <<>>))
FinalPath(i) == OutputFile(ARGS, MediaFile(ARGS.files[i], <<>>))

C23_OriginalOrWorking ==
    ~ARGS.dry_run => (Exists(fs, Original) \/ Exists(fs, WorkingPath(cur)))

(* C23, amended: in every state of a run that is not a dry run, the        *)
(* original of the file being processed exists, or its working file, or,   *)
(* after the rename, the final file with the engine's output.  A step      *)
(* removes an original only when it is the original of the file being      *)
(* processed, the main invocation has returned 0 and the working file      *)
(* exists; a step removes a working file only by renaming it to the final  *)
(* path of the file being processed.                                       *)
C23_NeverAllLost ==
    /\ [](~ARGS.dry_run =>
            \/ Exists(fs, Original)
            \/ Exists(fs, WorkingPath(cur))
            \/ /\ Happened("replace")
               /\ Exists(fs, FinalPath(cur))
               /\ fs[FinalPath(cur)] = Content("out", Original.stem))
    /\ [][\A i \in 1..Len(ARGS.files) :
            /\ (Exists(fs, ARGS.files[i]) /\ ~Exists(fs', ARGS.files[i])) =>
                    /\ i = cur
                    /\ MainReturned
                    /\ MainCode = 0
                    /\ Exists(fs, WorkingPath(i))
            /\ (Exists(fs, WorkingPath(i)) /\ ~Exists(fs', WorkingPath(i))) =>
                    /\ i = cur
                    /\ Exists(fs', FinalPath(i))
                    /\ fs'[FinalPath(i)] = fs[WorkingPath(i)]]_vars

\* a commit that changed the container: the original and the working file
\* are gone, the final file holds the engine's output
C23_Witness ==
    /\ ~ARGS.dry_run
    /\ pc = "returned"
    /\ exit_at = "committed"
    /\ FinalPath(cur) # Original
    /\ ~Exists(fs, Original)
    /\ ~Exists(fs, WorkingPath(cur))
    /\ fs[FinalPath(cur)] = Content("out", Original.stem)


-----------------------------------------------------------------------------
(* C25: a fatal error at file k ends the whole run.  No step is taken      *)
(* after it; nothing is recorded for a later file, the original, the       *)
(* working path and the final path of every later file are as the run      *)
(* found them, and the final file of every earlier file that was committed *)
(* still holds the engine's output.  In particular no step for a later     *)
(* file follows a main invocation that returned a non-zero code.           *)
Untouched(i) ==
    \A p \in {ARGS.files[i], WorkingPath(i), FinalPath(i)} :
        /\ Exists(fs, p) <=> Exists(fs0, p)
        /\ Exists(fs, p) => fs[p] = fs0[p]

Committed(i) == \E n \in 1..Len(events) : events[n].op = "replace" /\ events[n].file = i

C25_FatalEndsRun ==
    /\ [](pc = "fatal" =>
            /\ \A n \in 1..Len(events) : events[n].file <= cur
            /\ \A i \in (cur + 1)..Len(ARGS.files) : Untouched(i)
            /\ \A i \in 1..(cur - 1) :
                Committed(i) =>
                    /\ Exists(fs, FinalPath(i))
                    /\ fs[FinalPath(i)] = Content("out", ARGS.files[i].stem))
    /\ [](\A m, n \in 1..Len(events) :
            (events[m].op = "return_main" /\ events[m].arg # 0) =>
                events[n].file <= events[m].file)
    /\ [][pc # "fatal"]_vars

\* the run over two files has ended in fatal at the first file, whose main
\* invocation failed: the second file was never begun
C25_Witness ==
    /\ Len(ARGS.files) = 2
    /\ cur = 1
    /\ pc = "fatal"
    /\ exit_at = "ffmpeg_failed"
    /\ Happened("return_main")
    /\ Exists(fs, ARGS.files[2])


-----------------------------------------------------------------------------
(* subtitle-arranger.py                                                    *)

MaxVideos == 2          \* video files below BASE_DIR
MaxSubtitles == 2       \* subtitle files below BASE_DIR

\* the variables of mediautil.py, which the other two programs leave alone
mediautilVars == <<ARGS, media, cur, pc, exit_at, input_file, plan, working_dir,
                   working_file, output_file, pending, sub_file, destinations,
                   returncode, fs, dirs, fs0, dirs0, fs_start, dirs_start, fs_exec,
                   process, pipe, output_reader, execute_at, events, run>>

\* mediautil.py not started: the state after parse_args of one command line
MediautilIdle ==
    InitWith(RawArgs(<<InputPath(1)>>, CHOOSE e \in EditsOf({"list"}) : TRUE,
                     DefaultOptions),
             <<ProbeFailed>>, Disk(<<InputPath(1)>>, {}, {}))

\* a path below BASE_DIR: the directory names from BASE_DIR down, the stem
\* as the parts that FILENAME_SPLIT_REGEX (42) splits it into, and the
\* suffix without its dot.  A directory name is a list of parts too.  No
\* part used here is a substring of another part of a video's stem, so that
\* "in" on the stems (97-100) is containment of the parts in a row.
Path(dir, parts, ext) == [dir |-> dir, parts |-> parts, ext |-> ext]

\* str.lower on a part
lower(part) ==
    CASE part = "Movie" -> "movie"
      [] part = "Show" -> "show"
      [] part = "S01E01" -> "s01e01"
      [] part = "English" -> "english"
      [] part = "Subs" -> "subs"
      [] part = "Subtitles" -> "subtitles"
      [] OTHER -> part

LowerAll(parts) == [i \in 1..Len(parts) |-> lower(parts[i])]

None == "None"

\* Language, 18-21, in the order of the enumeration
Language == <<"ENGLISH", "SWEDISH", "SPANISH">>

\* 23-25 (the fourth name of SPANISH is written without its tilde)
representations(language) ==
    CASE language = "ENGLISH" -> <<"eng", "en", "english">>
      [] language = "SWEDISH" -> <<"swe", "sv", "swedish", "svenska">>
      [] language = "SPANISH" -> <<"spa", "es", "spanish", "espanol">>

output_representation(language) == representations(language)[1]

\* 30-31
matches(language, search_string) ==
    lower(search_string) \in Range(representations(language))

\* 33-38
parse(search_string) ==
    LET found == {i \in 1..Len(Language) : matches(Language[i], search_string)}
    IN  IF found = {} THEN None
        ELSE Language[CHOOSE i \in found : \A j \in found : i <= j]

Reversed(s) == [i \in 1..Len(s) |-> s[Len(s) + 1 - i]]

RECURSIVE resolve_optional(_, _)
\* SubtitleFile.__resolve_optional, 68-83: the loop over the parts left
resolve_optional(parts, self) ==
    IF parts = <<>> THEN self
    ELSE LET part == Head(parts) IN
         IF ~self.forced /\ part = "forced"
         THEN resolve_optional(Tail(parts), [self EXCEPT !.forced = TRUE])
         ELSE IF ~self.hi /\ part \in {"hi", "sdh"}
         THEN resolve_optional(Tail(parts), [self EXCEPT !.hi = TRUE])
         ELSE IF self.language = None /\ parse(part) # None
         THEN resolve_optional(Tail(parts), [self EXCEPT !.language = parse(part)])
         ELSE resolve_optional(Tail(parts), self)

\* SubtitleFile.__init__, 50-56; every file lies below BASE_DIR (58-66)
SubtitleFile(path) ==
    resolve_optional(Reversed(path.parts),
                     [path |-> path, tree |-> path.dir, language |-> None,
                      forced |-> FALSE, hi |-> FALSE])

\* SubtitleFile.create_file_suffix, 85-95: the parts of base, and the suffix
create_file_suffix(self) ==
    [parts |-> (IF self.language # None
                THEN <<output_representation(self.language)>> ELSE <<>>)
               \o (IF self.hi THEN <<"hi">> ELSE <<>>)
               \o (IF self.forced THEN <<"forced">> ELSE <<>>),
     ext   |-> self.path.ext]

\* s holds the elements of t in a row
Contains(s, t) ==
    \E i \in 0..(Len(s) - Len(t)) : \A j \in 1..Len(t) : s[i + j] = t[j]

\* 97-100
name_contains(self, search_string, case_sensitive) ==
    IF case_sensitive THEN Contains(self.path.parts, search_string)
    ELSE Contains(LowerAll(self.path.parts), LowerAll(search_string))

\* 102-106
tree_contains(self, search_string, case_sensitive) ==
    IF case_sensitive THEN search_string \in Range(self.tree)
    ELSE LowerAll(search_string) \in {LowerAll(element) : element \in Range(self.tree)}

\* EPISODE_REGEX, 114: the parts that are S<n>E<n> or <n>x<n>, in any case
EpisodeParts == {"S01E01", "s01e01", "1x01"}

\* VideoFile.__is_episode, 129-131
is_episode(path) == \E i \in 1..Len(path.parts) : path.parts[i] \in EpisodeParts

\* VideoFile.__init__, 121-124
VideoFile(path) ==
    [path |-> path, is_episode |-> is_episode(path), subtitle_files |-> <<>>]

\* 133-139
resolve_subtitle_target_dir(self) ==
    IF self.is_episode THEN Append(self.path.dir, <<"Subtitles">>) ELSE self.path.dir

Orderings(S) == {s \in [1..Cardinality(S) -> S] : Range(s) = S}

RECURSIVE find_files(_, _)
\* FileResolver.find_files, 151-155: pattern after pattern, the files of a
\* pattern in the order in which rglob happens to yield them
find_files(files, patterns) ==
    IF patterns = <<>> THEN {<<>>}
    ELSE {found \o more :
            found \in Orderings({file \in files : file.ext = Head(patterns)}),
            more \in find_files(files, Tail(patterns))}

\* SubtitleMatcher.find_match, 161-176: the index of the video, 0 for None
find_match(videos, subtitle) ==
    IF Len(videos) = 1 THEN 1
    ELSE
        LET predicate(n, video) ==
                CASE n = 1 -> name_contains(subtitle, video.path.parts, TRUE)
                  [] n = 2 -> name_contains(subtitle, video.path.parts, FALSE)
                  [] n = 3 -> tree_contains(subtitle, video.path.parts, TRUE)
                  [] n = 4 -> tree_contains(subtitle, video.path.parts, FALSE)
            hits == {<<n, i>> \in (1..4) \X (1..Len(videos)) : predicate(n, videos[i])}
        IN  IF hits = {} THEN 0
            ELSE (CHOOSE h \in hits :
                    \A g \in hits : h[1] < g[1] \/ (h[1] = g[1] /\ h[2] <= g[2]))[2]

\* 209-216
match_subtitles_with_videos(videos, subtitle_files) ==
    [i \in 1..Len(videos) |->
        [videos[i] EXCEPT !.subtitle_files =
            SelectSeq(subtitle_files, LAMBDA subtitle : find_match(videos, subtitle) = i)]]

\* the numbers move_file appends, as str(counter) writes them
Str(counter) ==
    CASE counter = 1 -> "1" [] counter = 2 -> "2" [] counter = 3 -> "3"
      [] counter = 4 -> "4" [] OTHER -> "5"

RECURSIVE free_destination(_, _, _, _, _)
\* move_file, 239-247: the loop, entered with destination and counter
free_destination(files, target_dir, base, ext, counter) ==
    LET destination == Path(target_dir, IF counter = 0 THEN base
                                        ELSE Append(base, Str(counter)), ext)
    IN  IF destination \in files
        THEN free_destination(files, target_dir, base, ext, counter + 1)
        ELSE destination

Printed(text, source, destination) ==
    [text |-> text, source |-> source, destination |-> destination]

\* the trees a run can find below BASE_DIR
VideoCandidates ==
    {Path(<<>>, <<"Movie">>, "mkv"),
     Path(<<>>, <<"Show", "S01E01">>, "mkv"),
     Path(<<>>, <<"show", "1x01">>, "mp4")}

SubtitleCandidates ==
    {Path(<<>>, <<"Movie", "en">>, "srt"),
     Path(<<>>, <<"Movie", "eng">>, "srt"),
     Path(<< <<"Subs">> >>, <<"movie", "swedish", "forced">>, "srt"),
     Path(<<>>, <<"Show", "S01E01", "sv", "sdh">>, "srt"),
     Path(<< <<"Show", "S01E01">> >>, <<"English">>, "sub"),
     Path(<< <<"Subtitles">> >>, <<"Show", "S01E01", "eng">>, "srt"),
     Path(<<>>, <<"extras">>, "srt")}

Prefixes(dir) == {SubSeq(dir, 1, k) : k \in 0..Len(dir)}

Trees ==
    {[files |-> videos \cup subtitles,
      dirs  |-> UNION {Prefixes(file.dir) : file \in videos \cup subtitles}
                \cup {<<>>} \cup more]
        : videos \in {V \in SUBSET VideoCandidates : Cardinality(V) <= MaxVideos},
          subtitles \in {S \in SUBSET SubtitleCandidates : Cardinality(S) <= MaxSubtitles},
          more \in SUBSET {<< <<"Subtitles">> >>}}

\* main, 179-187: the command line is parsed
InitArranger ==
    /\ MediautilIdle
    /\ SftpIdle
    /\ DRY_RUN \in BOOLEAN
    /\ \E tree \in Trees :
        /\ tree_files = tree.files
        /\ tree_dirs = tree.dirs
        /\ tree_files0 = tree.files
        /\ tree_dirs0 = tree.dirs
    /\ video_files = <<>>
    /\ arranger_pc = "main"
    /\ video_at = 0
    /\ subtitle_at = 0
    /\ printed = <<>>

\* main, 188-199: the files are looked up and the subtitles matched
ArrangerMain ==
    /\ arranger_pc = "main"
    /\ \E subtitle_paths \in find_files(tree_files, <<"srt", "sub">>),
          video_paths \in find_files(tree_files, <<"mkv", "mp4", "avi", "mpg">>) :
        LET subtitle_files == [i \in 1..Len(subtitle_paths) |->
                                    SubtitleFile(subtitle_paths[i])]
            videos == [i \in 1..Len(video_paths) |-> VideoFile(video_paths[i])]
        IN  IF Len(videos) = 0 \/ Len(subtitle_files) = 0
            THEN /\ arranger_pc' = "exit"              \* sys.exit(1)
                 /\ UNCHANGED <<video_files, video_at>>
            ELSE /\ video_files' = match_subtitles_with_videos(videos, subtitle_files)
                 /\ video_at' = 1
                 /\ arranger_pc' = "rearrange"
    /\ UNCHANGED <<mediautilVars, sftpVars, DRY_RUN, tree_files, tree_dirs, tree_files0,
                   tree_dirs0, subtitle_at, printed>>

\* rearrange_subtitle_files, 219-221: the next video's target directory
Mkdir ==
    /\ arranger_pc = "rearrange"
    /\ video_at <= Len(video_files)
    /\ tree_dirs' = tree_dirs \cup {resolve_subtitle_target_dir(video_files[video_at])}
    /\ subtitle_at' = 1
    /\ arranger_pc' = "subtitles"
    /\ UNCHANGED <<mediautilVars, sftpVars, DRY_RUN, tree_files, tree_files0, tree_dirs0,
                   video_files, video_at, printed>>

\* rearrange_subtitle_files, 223-236 and move_file, 238-253: the next
\* subtitle of the video
RearrangeSubtitle ==
    /\ arranger_pc = "subtitles"
    /\ subtitle_at <= Len(video_files[video_at].subtitle_files)
    /\ LET video_file == video_files[video_at]
           subtitle_file == video_file.subtitle_files[subtitle_at]
           target_directory == resolve_subtitle_target_dir(video_file)
           suffix == create_file_suffix(subtitle_file)
           base == video_file.path.parts \o suffix.parts
           destination == Path(target_directory, base, suffix.ext)
           free == free_destination(tree_files, target_directory, base, suffix.ext, 0)
       IN  IF subtitle_file.language = None
           THEN /\ printed' = Append(printed, Printed("Ignoring", subtitle_file.path,
                                                      subtitle_file.path))
                /\ UNCHANGED tree_files
           ELSE IF subtitle_file.path = destination
           THEN /\ printed' = Append(printed, Printed("Skipping", subtitle_file.path,
                                                      destination))
                /\ UNCHANGED tree_files
           ELSE IF DRY_RUN
           THEN /\ printed' = Append(printed, Printed("[DRY-RUN]", subtitle_file.path,
                                                      free))
                /\ UNCHANGED tree_files
           ELSE /\ printed' = Append(printed, Printed("Moving", subtitle_file.path, free))
                /\ tree_files' = (tree_files \ {subtitle_file.path}) \cup {free}
    /\ subtitle_at' = subtitle_at + 1
    /\ UNCHANGED <<mediautilVars, sftpVars, DRY_RUN, tree_dirs, tree_files0, tree_dirs0,
                   video_files, video_at, arranger_pc>>

\* rearrange_subtitle_files, 219: the loop goes to the next video
NextVideo ==
    /\ arranger_pc = "subtitles"
    /\ subtitle_at > Len(video_files[video_at].subtitle_files)
    /\ video_at' = video_at + 1
    /\ arranger_pc' = "rearrange"
    /\ UNCHANGED <<mediautilVars, sftpVars, DRY_RUN, tree_files, tree_dirs, tree_files0,
                   tree_dirs0, video_files, subtitle_at, printed>>

\* rearrange_subtitle_files returns and main with it
ArrangerDone ==
    /\ arranger_pc = "rearrange"
    /\ video_at > Len(video_files)
    /\ arranger_pc' = "done"
    /\ UNCHANGED <<mediautilVars, sftpVars, DRY_RUN, tree_files, tree_dirs, tree_files0,
                   tree_dirs0, video_files, video_at, subtitle_at, printed>>

NextArranger ==
    \/ ArrangerMain
    \/ Mkdir
    \/ RearrangeSubtitle
    \/ NextVideo
    \/ ArrangerDone

SpecArranger == InitArranger /\ [][NextArranger]_vars

(* C26: in a run with --dry-run the tree below BASE_DIR stays as the run    *)
(* found it: no file is renamed or moved, no directory is created.         *)
C26_DryRunChangesNothing ==
    DRY_RUN => (tree_files = tree_files0 /\ tree_dirs = tree_dirs0)


-----------------------------------------------------------------------------
(* sftpsummary.py                                                          *)

MaxLines == 3           \* lines of the log file

\* 10: the operations whose lines are left out
FILTERS == {"opendir", "closedir", "close"}

\* a line of the log: the date and time it starts with ("" when it starts
\* with none), the texts it holds in square brackets in their order, the
\* operation after "]: " and the quoted text after the operation
LogLine(time, brackets, text, details) ==
    [time |-> time, brackets |-> brackets, text |-> text, details |-> details]

\* \d+ of the patterns at 14-16: the texts made of digits
Digits == {"7", "8"}

\* LogEntry.__getMatch, 43-47, with SESSIONID_PATTERN (14): the first
\* bracket that holds digits only, "" without one
getSessionId(line) ==
    LET found == {i \in 1..Len(line.brackets) : line.brackets[i] \in Digits}
    IN  IF found = {} THEN ""
        ELSE line.brackets[CHOOSE i \in found : \A j \in found : i <= j]

\* LogEntry.getTime, 27-28, with DATETIME_PATTERN (12)
getTime(line) == line.time

\* LogEntry.getType, 32-38
getType(line) ==
    IF line.text = "session opened" THEN "sessionOpen"
    ELSE IF line.text = "session closed" THEN "sessionClose"
    ELSE IF getSessionId(line) # "" THEN line.text
    ELSE ""

\* LogEntry.getUser, 25-26, with USER_PATTERN (13)
getUser(line) == IF line.text = "session opened" THEN "bob" ELSE ""

\* LogEntry.getDetails, 40-41, with DETAILS_PATTERN (16)
getDetails(line) == IF getSessionId(line) # "" THEN line.details ELSE ""

\* 76: one of FILTERS is in the line, as the operation or inside the
\* quoted text
Filtered(line) == line.text \in FILTERS \/ line.details = "/a: close b"

\* Session.__init__, 49-55
Session(sessionId) ==
    [id |-> sessionId, user |-> "", start |-> "", end |-> "", userActions |-> <<>>]

\* UserAction.__init__, 65-69
UserAction(time, aType, details) == [time |-> time, type |-> aType, details |-> details]

\* the memory of the run: the objects, the dictionary and the list
Memory(objects, dict, list) == [heap |-> objects, dict |-> dict, list |-> list]

\* getSession that does not look the id up (101-102 left out): a new
\* Session for every line.  C27 fails with it.
getSessionUnindexed(m, sessionId) ==
    LET ref == Len(m.heap) + 1
    IN  [memory |-> Memory(Append(m.heap, Session(sessionId)),
                           [id \in DOMAIN m.dict \cup {sessionId} |->
                                IF id = sessionId THEN ref ELSE m.dict[id]],
                           Append(m.list, ref)),
         session |-> ref]

\* getSession, 100-107: the memory after the call and the reference returned
getSession(m, sessionId) ==
    IF sessionId \in DOMAIN m.dict
    THEN [memory |-> m, session |-> m.dict[sessionId]]
    ELSE LET newSession == Len(m.heap) + 1
         IN  [memory |-> Memory(Append(m.heap, Session(sessionId)),
                                [id \in DOMAIN m.dict \cup {sessionId} |->
                                    IF id = sessionId THEN newSession ELSE m.dict[id]],
                                Append(m.list, newSession)),
              session |-> newSession]

\* processLine, 80-98: the memory after the line
processLine(m, line) ==
    LET sessionId == getSessionId(line)
    IN  IF sessionId = "" THEN m
        ELSE
            LET got == getSession(m, sessionId)
                session == got.session
                tType == getType(line)
                time == getTime(line)
                object == got.memory.heap[session]
                after ==
                    IF tType = "sessionOpen"
                    THEN [object EXCEPT !.user = getUser(line), !.start = time]
                    ELSE IF tType = "sessionClose"
                    THEN [object EXCEPT !.end = time]
                    ELSE IF tType = "open"
                    THEN [object EXCEPT !.userActions =
                            Append(@, UserAction(time, tType, getDetails(line)))]
                    ELSE object
            IN  [got.memory EXCEPT !.heap[session] = after]

\* the lines a log can hold
LogLines ==
    {LogLine("2024-01-01", <<id, "10.0.0.1">>, text, "") :
        id \in Digits, text \in {"session opened", "session closed"}}
    \cup {LogLine(day, <<id>>, text, "/file") :
            day \in {"2024-01-01", "2024-01-02"}, id \in Digits,
            text \in {"open", "close"}}
    \cup {LogLine("2024-01-01", <<"7">>, "opendir", "/dir"),
          LogLine("2024-01-01", <<"8">>, "closedir", "/dir"),
          LogLine("2024-01-01", <<"8">>, "remove", "/file"),
          LogLine("2024-01-01", <<"8">>, "open", "/a: close b"),
          LogLine("2024-01-01", <<"10.0.0.1">>, "open", "/file"),
          LogLine("2024-01-01", <<>>, "", ""),
          LogLine("", <<"7">>, "open", "/file")}

\* parseArguments, 131-145 and 158
InitSftp ==
    /\ MediautilIdle
    /\ ArrangerIdle
    /\ sftp_ARGS \in [date : {"", "2024-01-01"}, quiet : BOOLEAN, mail : {"", "a@b"}]
    /\ logfile = <<>>
    /\ heap = <<>>
    /\ SESSIONS_DICT = <<>>
    /\ SESSIONS_LIST = <<>>
    /\ sftp_pc = "processLogFile"
    /\ exitCode = 0

\* processLogFile, 72-78: the next line of the file
ProcessLogFile ==
    /\ sftp_pc = "processLogFile"
    /\ Len(logfile) < MaxLines
    /\ \E line \in LogLines :
        /\ logfile' = Append(logfile, line)
        /\ LET m == IF (sftp_ARGS.date = "" \/ line.time = sftp_ARGS.date)
                        /\ ~Filtered(line)
                    THEN processLine(Memory(heap, SESSIONS_DICT, SESSIONS_LIST), line)
                    ELSE Memory(heap, SESSIONS_DICT, SESSIONS_LIST)
           IN  /\ heap' = m.heap
               /\ SESSIONS_DICT' = m.dict
               /\ SESSIONS_LIST' = m.list
    /\ UNCHANGED <<mediautilVars, arrangerVars, sftp_ARGS, sftp_pc, exitCode>>

\* 160-172: the file has ended; the summary, the mail and the exit code
EndOfLog ==
    /\ sftp_pc = "processLogFile"
    /\ sftp_pc' = "exited"
    /\ exitCode' = IF Len(SESSIONS_LIST) > 0 THEN 0 ELSE 1
    /\ UNCHANGED <<mediautilVars, arrangerVars, sftp_ARGS, logfile, heap, SESSIONS_DICT,
                   SESSIONS_LIST>>

NextSftp ==
    \/ ProcessLogFile
    \/ EndOfLog

SpecSftp == InitSftp /\ [][NextSftp]_vars

(* C27: after any lines of the log, the dictionary and the list hold the   *)
(* same Session objects, one for each session id carried by a line that    *)
(* was taken (of the selected date when a date is given, not filtered) and *)
(* none else, each object under its own id, the list in the order in which *)
(* the ids first appeared; and a line removes no session from the          *)
(* dictionary or the list and moves none.                                  *)
Taken(line) ==
    /\ sftp_ARGS.date = "" \/ line.time = sftp_ARGS.date
    /\ ~Filtered(line)
    /\ getSessionId(line) # ""

RECURSIVE FirstAppearances(_, _)
\* the ids of the taken lines among lines, each once, in the order of
\* their first appearance, after those of seen
FirstAppearances(lines, seen) ==
    IF lines = <<>> THEN seen
    ELSE IF Taken(Head(lines)) /\ getSessionId(Head(lines)) \notin Range(seen)
    THEN FirstAppearances(Tail(lines), Append(seen, getSessionId(Head(lines))))
    ELSE FirstAppearances(Tail(lines), seen)

C27_DictAndListAgree ==
    /\ [](/\ [i \in 1..Len(SESSIONS_LIST) |-> heap[SESSIONS_LIST[i]].id]
                = FirstAppearances(logfile, <<>>)
          /\ DOMAIN SESSIONS_DICT = Range(FirstAppearances(logfile, <<>>))
          /\ \A id \in DOMAIN SESSIONS_DICT : heap[SESSIONS_DICT[id]].id = id
          /\ {SESSIONS_DICT[id] : id \in DOMAIN SESSIONS_DICT} = Range(SESSIONS_LIST)
          /\ Cardinality(Range(SESSIONS_LIST)) = Len(SESSIONS_LIST))
    /\ [][/\ IsPrefix(SESSIONS_LIST, SESSIONS_LIST')
          /\ \A id \in DOMAIN SESSIONS_DICT :
                /\ id \in DOMAIN SESSIONS_DICT'
                /\ SESSIONS_DICT'[id] = SESSIONS_DICT[id]]_vars

\* three lines were read: one of session 7, a filtered one of session 8 and
\* one carrying no id; one session exists
C27_Witness ==
    /\ Len(logfile) = 3
    /\ \E i, j, k \in 1..3 :
        /\ Taken(logfile[i]) /\ getSessionId(logfile[i]) = "7"
        /\ Filtered(logfile[j]) /\ getSessionId(logfile[j]) = "8"
        /\ getSessionId(logfile[k]) = ""
    /\ Len(SESSIONS_LIST) = 1
    /\ DOMAIN SESSIONS_DICT = {"7"}

====
